---- MODULE Spec2Model ----
(***************************************************************************)
(* Real-time stream subscription engine of crypto_bot:                     *)
(*   StreamManager          (services/websocket/stream_manager.py)         *)
(*   BinanceWebSocketClient (services/websocket/binance_websocket.py)      *)
(* Coroutines are modelled as tasks that run atomically between the points *)
(* where they really suspend (a transport send, a transport open or close, *)
(* a sleep, the wait for a cancelled task).                                *)
(***************************************************************************)
EXTENDS Integers, Sequences, FiniteSets, TLC

\* ------------------------------------------------------------------ bounds
NumUsers == 2
MaxTasks == 2
MaxCalls == 2
MaxSeqCalls == 4
MaxConnects == 2
MaxTime == 2
MaxPrice == 2
MaxClock == 61
MaxFrames == 2

\* ------------------------------------------------- configuration constants
max_reconnect_attempts == 5
reconnect_delay == 5
backoff_multiplier == 2
max_reconnect_delay == 300
ping_interval == 20
ping_timeout == 10
health_check_interval == 30

\* ------------------------------------------------------------------ inputs
Users == 1..NumUsers
Symbols == {"BTCUSDT", "BTC"}
TimeframeLists == {<<"1m">>, <<"1m", "5m">>, <<"5m", "7m">>}
Timeframes == {"1m", "5m", "7m"}
BINANCE_TIMEFRAMES == {"1m", "3m", "5m", "15m", "30m", "1h", "2h", "4h",
                       "6h", "8h", "12h", "1d", "3d", "1w", "1M"}

\* str.lower() / str.upper() on the symbols and timeframes of the inputs
Lower(s) == CASE s = "BTCUSDT" -> "btcusdt"
              [] s = "BTC" -> "btc"
              [] s = "1M" -> "1m"
              [] s = "1H" -> "1h"
              [] OTHER -> s
Upper(s) == CASE s = "btcusdt" -> "BTCUSDT"
              [] OTHER -> s

\* validate_trading_pair_symbol: length 6..12, alphanumeric, known quote
\* asset with a base asset of at least two characters
validate_trading_pair_symbol(symbol) == Upper(symbol) = "BTCUSDT"

\* validate_timeframe that accepts every timeframe
validate_timeframe_accepts_all(timeframe) == timeframe = timeframe

\* validate_timeframe: timeframe.lower().strip() in BINANCE_TIMEFRAMES
validate_timeframe(timeframe) == Lower(timeframe) \in BINANCE_TIMEFRAMES

\* get_kline_stream_name: f"{symbol.lower()}@kline_{timeframe}"
get_kline_stream_name(symbol, timeframe) == <<Lower(symbol), timeframe>>

\* StreamSubscription.__init__: the fields the record keeps of its arguments
StreamSubscription(symbol, timeframe) ==
    [symbol |-> Upper(symbol), timeframe |-> Lower(timeframe),
     stream_name |-> get_kline_stream_name(Upper(symbol), Lower(timeframe))]

\* the record self.subscriptions holds under a key: subscribe_user_to_pair
\* builds it from the symbol and timeframe it built the key from, and
\* __init__ normalises the case of both
record(stream_name) == StreamSubscription(stream_name[1], stream_name[2])

StreamNames == {get_kline_stream_name(s, tf) : s \in Symbols, tf \in Timeframes}

\* ------------------------------------------------------------ dict helpers
Put(f, k, v) == [x \in (DOMAIN f) \cup {k} |-> IF x = k THEN v ELSE f[x]]
Del(f, k) == [x \in (DOMAIN f) \ {k} |-> f[x]]
EmptyDict == [x \in {} |-> {}]
SeqToSet(s) == {s[k] : k \in 1..Len(s)}
ZeroCount == [s \in StreamNames |-> 0]
Bump(cnt, S) == [s \in StreamNames |-> IF s \in S THEN cnt[s] + 1 ELSE cnt[s]]

VARIABLES
    \* StreamManager
    websocket_client,       \* TRUE when self.websocket_client is not None
    subscriptions,          \* stream_name -> users of the StreamSubscription
    user_streams,           \* user_id -> set of stream names (defaultdict)
    message_stats,          \* message_count / last_data_time of the
                            \*   subscriptions, total_messages_processed
    manager_tasks,          \* cleanup_task / stats_task are running
    calls,                  \* consumer-facing calls in flight
    ncalls,                 \* consumer-facing calls started so far
    returned,               \* what the last returned consumer call returned
    lifecycle,              \* position of the owner's start() / stop() call
    \* BinanceWebSocketClient (the object the manager created last)
    state,                  \* ConnectionState
    websocket,              \* self.websocket: 0 is None, else a transport id
    subscribed_streams,
    pending_subscriptions,
    reconnect_attempts,
    pinged,                 \* last_ping_time > 0 (last_pong_time stays 0)
    clock,                  \* the time, last_ping_time and the sleeps of the heartbeat
    ping_task,              \* the current ping loop is alive
    health_check_task,      \* id of the current health check task, 0 is None
    health,                 \* health check task id -> position
    listener,               \* the start_listening() task
    \* environment
    open,                   \* transports that are open
    nconn,                  \* transports opened so far
    upstream,               \* streams the server holds for the current transport
    inbound,                \* frames sent on the transport the listen task
                            \*   reads, and the frame it is handling
    \* observation
    obs

vars == <<websocket_client, subscriptions, user_streams, manager_tasks, calls,
          ncalls, returned, lifecycle, state, websocket, subscribed_streams,
          pending_subscriptions, reconnect_attempts, pinged, clock, ping_task,
          health_check_task, health, listener, open, nconn, upstream, obs,
          message_stats, inbound>>

mgrVars == <<websocket_client, subscriptions, user_streams, message_stats,
             manager_tasks, calls, ncalls, returned, lifecycle>>
regVars == <<subscriptions, user_streams, message_stats>>
callVars == <<calls, ncalls, returned>>
streamVars == <<subscribed_streams, pending_subscriptions>>
taskVars == <<ping_task, health_check_task, health, listener>>
connVars == <<state, websocket, reconnect_attempts, open, nconn>>

TransportOpen == websocket # 0 /\ websocket \in open
Streams(u, us) == IF u \in DOMAIN us THEN us[u] ELSE {}
\* the streams of a registry that have at least one user
Live(subs) == {s \in DOMAIN subs : subs[s] # {}}

\* StreamManager.__init__ and StreamSubscription.__init__: nothing processed,
\* and every record starts with message_count 0 and last_data_time None
InitStats == [total_messages_processed |-> 0,
              message_count |-> [s \in {} |-> 0], last_data_time |-> {}]
\* message_count and last_data_time are fields of the StreamSubscription
\* records: a record that is created starts at 0 and None, a record that
\* is deleted takes its fields with it
follow(ms, subs, new_subs) ==
    [ms EXCEPT !.message_count =
                  [s \in DOMAIN new_subs |->
                     IF s \in DOMAIN subs THEN ms.message_count[s] ELSE 0],
               !.last_data_time = @ \cap (DOMAIN subs \cap DOMAIN new_subs)]
\* no frame sent, none waiting, none being handled
InitInbound == [sent |-> 0, queue |-> <<>>, handling |-> 0, last |-> 0,
                pipeline |-> 0]

\* ---------------------------------------------------------- observation
\* counting: the four counters below are kept (they are not when FALSE)
\* up / down: how often a stream's user set went 0 -> 1 and 1 -> 0
\* sub_frames / unsub_frames: SUBSCRIBE / UNSUBSCRIBE frames written by the
\*   consumer-facing calls that name the stream
\* reconnect_errors: WebSocketReconnectError handed to the error handler
\*   since the last successful connect
\* run_connects: transport opens attempted since the last successful connect
\* prev_run: failed attempts that preceded the last successful reconnect
\* explicit: disconnect() was called on the client and start() not since
\* snap: taken when the server closes the current transport: the streams of
\*   the registry with a user; idle while no consumer call has run since
\* replay: the params of the SUBSCRIBE replayed by the reconnect that
\*   followed, next to the snapshot it is to be compared with
NoSnap == [taken |-> FALSE, streams |-> {}, idle |-> FALSE]
NoReplay == [done |-> FALSE, sent |-> {}, snap |-> {}, quiet |-> FALSE]
\* connect: how the last connect() ended: "true" with a new transport,
\*   "early" returning True without one, "raised" after the error handler
\* start: how the last start() ended: "ok" or "raised"
\* stats: the last statistics call and what it returned
\* messages_sent: self.messages_sent of the client, kept when counting
\* frame: the last frame the listen loop handled: its kline, whether
\*   message_handler was called with it, how often the closed-candle
\*   pipeline ran for it, and whether an exception left _handle_message
NoKline == [missing |-> FALSE, t |-> 0, T |-> 0, o |-> 0, c |-> 0, h |-> 0,
            l |-> 0, v |-> 0, x |-> FALSE]
NoFrame == [seen |-> FALSE, stream |-> <<"", "">>, k |-> NoKline,
            handler |-> 0, pipeline |-> 0, raised |-> FALSE]
InitObs == [counting |-> FALSE, up |-> ZeroCount, down |-> ZeroCount,
            sub_frames |-> ZeroCount, unsub_frames |-> ZeroCount,
            reconnect_errors |-> 0, run_connects |-> 0, prev_run |-> 0,
            explicit |-> FALSE, snap |-> NoSnap, replay |-> NoReplay,
            frame |-> NoFrame, connect |-> "none", start |-> "none",
            stats |-> [op |-> "none", user |-> 0, value |-> {}],
            messages_sent |-> 0]

\* what a consumer call leaves in obs: the counters when they are kept, and
\* a snapshot that is no longer that of a quiet registry
Counted(o) ==
    LET b == IF obs.counting THEN o ELSE obs
    IN  IF b.snap.taken THEN [b EXCEPT !.snap.idle = FALSE] ELSE b

\* what a send of the client leaves in obs when the counters are kept
Sent(o) == IF obs.counting THEN o ELSE obs

\* _send_message that counts the sends that raised too
send_message_counts_raised(messages_sent, ok) == messages_sent + 1

\* _send_message: self.messages_sent after a send that returned (ok) or
\* raised, on a missing or closed transport or inside websocket.send
send_message(messages_sent, ok) ==
    IF ok THEN messages_sent + 1 ELSE messages_sent

\* ------------------------------------------------ consumer-facing calls
IdleCall == [op |-> "idle", user |-> 0, symbol |-> "", timeframes |-> <<>>,
             todo |-> <<>>, created |-> {}, results |-> EmptyDict,
             ws |-> 0, stale |-> FALSE]
InFlight == {i \in 1..MaxTasks : calls[i].op # "idle"}
NoReturn == [n |-> 0, op |-> "none", user |-> 0, results |-> EmptyDict,
             created |-> {}, send_failed |-> FALSE, raised |-> FALSE]

\* a call starts in the lowest free task slot
CanCall(i) ==
    /\ ncalls < (IF obs.counting THEN MaxSeqCalls ELSE MaxCalls)
    /\ calls[i].op = "idle"
    /\ \A j \in 1..MaxTasks : calls[j].op = "idle" => i <= j

\* propagates without the "except Exception" around the upstream send
propagates_send_errors(send_failed) == send_failed

\* whether a failed upstream send leaves the consumer call as an exception:
\* the client and the manager catch Exception around every send
propagates(send_failed) == FALSE

\* the call returns: its slot is freed and its result recorded
Return(i, op, user_id, results, created, send_failed) ==
    /\ calls' = [calls EXCEPT ![i] = IdleCall]
    /\ returned' = [n |-> 1 - returned.n, op |-> op, user |-> user_id,
                    results |-> results, created |-> created,
                    send_failed |-> send_failed,
                    raised |-> propagates(send_failed)]

\* subscribe_user_to_pair or unsubscribe_user_from_pair on a manager whose
\* websocket_client is None: WebSocketConnectionError("StreamManager not
\* started") is raised before anything else is done
NotStarted(i, op, user_id) ==
    /\ CanCall(i)
    /\ ~websocket_client
    /\ op \in {"subscribe", "unsubscribe"}
    /\ ncalls' = ncalls + 1
    /\ returned' = [n |-> 1 - returned.n, op |-> op, user |-> user_id,
                    results |-> EmptyDict, created |-> {},
                    send_failed |-> FALSE, raised |-> TRUE]
    /\ UNCHANGED <<websocket_client, subscriptions, message_stats, user_streams,
                   manager_tasks, calls, lifecycle, connVars, upstream,
                   streamVars, pinged, clock, taskVars, obs>>
    /\ UNCHANGED inbound

\* subscribe_entry that queues a SUBSCRIBE frame for every join
subscribe_entry_always_sends(acc, user_id, stream_name, timeframe) ==
    LET exists == stream_name \in DOMAIN acc.subscriptions
        users == IF exists
                 THEN acc.subscriptions[stream_name] \cup {user_id}
                 ELSE {user_id}
    IN  [subscriptions |-> Put(acc.subscriptions, stream_name, users),
         user_streams |-> Put(acc.user_streams, user_id,
             Streams(user_id, acc.user_streams) \cup {stream_name}),
         streams |-> Append(acc.streams, stream_name),
         results |-> Put(acc.results, timeframe, TRUE)]

\* subscribe_entry that overwrites user_streams[user_id] with the one stream
subscribe_entry_forgets_streams(acc, user_id, stream_name, timeframe) ==
    LET exists == stream_name \in DOMAIN acc.subscriptions
        users == IF exists
                 THEN acc.subscriptions[stream_name] \cup {user_id}
                 ELSE {user_id}
    IN  [subscriptions |-> Put(acc.subscriptions, stream_name, users),
         user_streams |-> Put(acc.user_streams, user_id, {stream_name}),
         streams |-> IF exists THEN acc.streams
                     ELSE Append(acc.streams, stream_name),
         results |-> Put(acc.results, timeframe, TRUE)]

\* subscribe_entry that queues again a stream whose only user is the caller
subscribe_entry_requeues(acc, user_id, stream_name, timeframe) ==
    LET exists == stream_name \in DOMAIN acc.subscriptions
        users == IF exists
                 THEN acc.subscriptions[stream_name] \cup {user_id}
                 ELSE {user_id}
    IN  [subscriptions |-> Put(acc.subscriptions, stream_name, users),
         user_streams |-> Put(acc.user_streams, user_id,
             Streams(user_id, acc.user_streams) \cup {stream_name}),
         streams |-> IF exists /\ acc.subscriptions[stream_name] # {user_id}
                     THEN acc.streams
                     ELSE Append(acc.streams, stream_name),
         results |-> Put(acc.results, timeframe, TRUE)]

\* subscribe_user_to_pair, one valid timeframe of the loop: the user joins
\* the subscription of the stream, which is created if there is none
subscribe_entry(acc, user_id, stream_name, timeframe) ==
    LET exists == stream_name \in DOMAIN acc.subscriptions
        users == IF exists
                 THEN acc.subscriptions[stream_name] \cup {user_id}
                 ELSE {user_id}
    IN  [subscriptions |-> Put(acc.subscriptions, stream_name, users),
         user_streams |-> Put(acc.user_streams, user_id,
             Streams(user_id, acc.user_streams) \cup {stream_name}),
         streams |-> IF exists THEN acc.streams
                     ELSE Append(acc.streams, stream_name),
         results |-> Put(acc.results, timeframe, TRUE)]

\* StreamManager.subscribe_user_to_pair, the loop over the timeframes
RECURSIVE subscribe_loop(_, _, _, _, _)
subscribe_loop(acc, user_id, symbol, timeframes, k) ==
    IF k > Len(timeframes) THEN acc
    ELSE LET timeframe == timeframes[k]
             stream_name == get_kline_stream_name(symbol, timeframe)
         IN  IF ~validate_timeframe(timeframe)
             THEN subscribe_loop(
                    [acc EXCEPT !.results = Put(@, timeframe, FALSE)],
                    user_id, symbol, timeframes, k + 1)
             ELSE subscribe_loop(
                    subscribe_entry(acc, user_id, stream_name, timeframe),
                    user_id, symbol, timeframes, k + 1)

\* subscribe_to_multiple_streams catches every exception of the send and
\* returns a dict of False, so nothing is raised into subscribe_user_to_pair
subscribe_to_multiple_streams_raises == FALSE

\* the except branch of subscribe_user_to_pair: roll the new streams back
RECURSIVE rollback(_, _, _, _, _)
rollback(acc, user_id, symbol, timeframes, streams) ==
    IF streams = <<>> THEN acc
    ELSE LET stream_name == Head(streams)
         IN  IF stream_name \notin DOMAIN acc.subscriptions
             THEN rollback(acc, user_id, symbol, timeframes, Tail(streams))
             ELSE LET users == acc.subscriptions[stream_name] \ {user_id}
                  IN  rollback(
                        [subscriptions |-> IF users = {}
                                           THEN Del(acc.subscriptions, stream_name)
                                           ELSE Put(acc.subscriptions, stream_name, users),
                         user_streams |-> Put(acc.user_streams, user_id,
                             Streams(user_id, acc.user_streams) \ {stream_name}),
                         results |-> [tf \in DOMAIN acc.results |->
                             IF get_kline_stream_name(symbol, tf) = stream_name
                             THEN FALSE ELSE acc.results[tf]]],
                        user_id, symbol, timeframes, Tail(streams))

SubscribeUserToPair(i, user_id, symbol, timeframes) ==
    /\ CanCall(i)
    /\ websocket_client
    /\ ncalls' = ncalls + 1
    /\ IF ~validate_trading_pair_symbol(symbol)
       THEN /\ Return(i, "subscribe", user_id,
                      [tf \in SeqToSet(timeframes) |-> FALSE], {}, FALSE)
            /\ UNCHANGED <<regVars, streamVars, upstream, obs>>
       ELSE LET r == subscribe_loop(
                       [subscriptions |-> subscriptions,
                        user_streams |-> user_streams,
                        streams |-> <<>>, results |-> EmptyDict],
                       user_id, symbol, timeframes, 1)
                new == SeqToSet(r.streams)
                sends == new # {} /\ state = "connected" /\ TransportOpen
                fails == new # {} /\ state = "connected" /\ ~TransportOpen
                f == IF fails /\ subscribe_to_multiple_streams_raises
                     THEN rollback([subscriptions |-> r.subscriptions,
                                    user_streams |-> r.user_streams,
                                    results |-> r.results],
                                   user_id, symbol, timeframes, r.streams)
                     ELSE r
            IN  /\ subscriptions' = f.subscriptions
                /\ message_stats' = follow(message_stats, subscriptions, f.subscriptions)
                /\ user_streams' = f.user_streams
                /\ obs' = Counted([obs EXCEPT !.up = Bump(@, Live(f.subscriptions) \ Live(subscriptions)),
                              !.sub_frames = IF sends THEN Bump(@, new) ELSE @,
                              !.messages_sent = IF fails THEN send_message(@, FALSE)
                                                ELSE @])
                /\ IF new = {}
                   THEN \* nothing to send
                        /\ Return(i, "subscribe", user_id, r.results, {}, FALSE)
                        /\ UNCHANGED <<streamVars, upstream>>
                   ELSE IF state # "connected"
                   THEN \* not connected: only remembered for the next connect
                        /\ subscribed_streams' = subscribed_streams \cup new
                        /\ Return(i, "subscribe", user_id, r.results, new, FALSE)
                        /\ UNCHANGED <<pending_subscriptions, upstream>>
                   ELSE IF ~TransportOpen
                   THEN \* _send_message raises, the client returns False
                        /\ Return(i, "subscribe", user_id, f.results, new, TRUE)
                        /\ UNCHANGED <<streamVars, upstream>>
                   ELSE \* the frame is written, the task waits for the send
                        /\ upstream' = Put(upstream, websocket,
                                           upstream[websocket] \cup new)
                        /\ calls' = [calls EXCEPT ![i] =
                              [op |-> "subscribe", user |-> user_id,
                               symbol |-> symbol, timeframes |-> timeframes,
                               todo |-> r.streams, created |-> new,
                               results |-> r.results, ws |-> websocket,
                               stale |-> FALSE]]
                        /\ UNCHANGED <<returned, streamVars>>
    /\ UNCHANGED <<websocket_client, manager_tasks, lifecycle, connVars,
                   pinged, clock, taskVars>>
    /\ UNCHANGED inbound

\* the send of the SUBSCRIBE frame completes (ok) or raises (~ok); it can
\* raise only when the transport it was written to has gone
SubscribeSent(i, ok) ==
    /\ calls[i].op = "subscribe"
    /\ ok \/ calls[i].ws \notin open
    /\ LET c == calls[i]
           r == IF ~ok /\ subscribe_to_multiple_streams_raises
                THEN rollback([subscriptions |-> subscriptions,
                               user_streams |-> user_streams,
                               results |-> c.results],
                              c.user, c.symbol, c.timeframes, c.todo)
                ELSE [subscriptions |-> subscriptions,
                      user_streams |-> user_streams, results |-> c.results]
       IN  /\ IF ok /\ ~c.stale
              THEN /\ subscribed_streams' = subscribed_streams \cup c.created
                   /\ pending_subscriptions' = pending_subscriptions \cup c.created
              ELSE UNCHANGED streamVars
           /\ subscriptions' = r.subscriptions
           /\ message_stats' = follow(message_stats, subscriptions, r.subscriptions)
           /\ user_streams' = r.user_streams
           /\ Return(i, "subscribe", c.user, r.results, c.created, ~ok)
           /\ obs' = Sent([obs EXCEPT !.messages_sent =
                              IF c.stale THEN @ ELSE send_message(@, ok)])
    /\ UNCHANGED <<websocket_client, manager_tasks, ncalls, lifecycle, connVars,
                   pinged, clock, taskVars, upstream>>
    /\ UNCHANGED inbound

\* unsubscribe_entry without the discard from user_streams[user_id]
unsubscribe_entry_keeps_index(acc, user_id, stream_name, timeframe) ==
    LET users == acc.subscriptions[stream_name] \ {user_id}
        is_empty == users = {}
    IN  [subscriptions |-> IF is_empty
                           THEN Del(acc.subscriptions, stream_name)
                           ELSE Put(acc.subscriptions, stream_name, users),
         user_streams |-> acc.user_streams,
         streams |-> IF is_empty THEN Append(acc.streams, stream_name)
                     ELSE acc.streams,
         results |-> Put(acc.results, timeframe, TRUE)]

\* unsubscribe_entry that leaves the emptied subscription in the registry
unsubscribe_entry_keeps_empty(acc, user_id, stream_name, timeframe) ==
    LET users == acc.subscriptions[stream_name] \ {user_id}
        is_empty == users = {}
    IN  [subscriptions |-> Put(acc.subscriptions, stream_name, users),
         user_streams |-> Put(acc.user_streams, user_id,
             Streams(user_id, acc.user_streams) \ {stream_name}),
         streams |-> IF is_empty THEN Append(acc.streams, stream_name)
                     ELSE acc.streams,
         results |-> Put(acc.results, timeframe, TRUE)]

\* unsubscribe_user_from_pair, one timeframe whose stream is in the
\* registry: the user leaves it, the subscription is deleted when empty
unsubscribe_entry(acc, user_id, stream_name, timeframe) ==
    LET users == acc.subscriptions[stream_name] \ {user_id}
        is_empty == users = {}
    IN  [subscriptions |-> IF is_empty
                           THEN Del(acc.subscriptions, stream_name)
                           ELSE Put(acc.subscriptions, stream_name, users),
         user_streams |-> Put(acc.user_streams, user_id,
             Streams(user_id, acc.user_streams) \ {stream_name}),
         streams |-> IF is_empty THEN Append(acc.streams, stream_name)
                     ELSE acc.streams,
         results |-> Put(acc.results, timeframe, TRUE)]

\* StreamManager.unsubscribe_user_from_pair, the loop over the timeframes
RECURSIVE unsubscribe_loop(_, _, _, _, _)
unsubscribe_loop(acc, user_id, symbol, timeframes, k) ==
    IF k > Len(timeframes) THEN acc
    ELSE LET timeframe == timeframes[k]
             stream_name == get_kline_stream_name(symbol, timeframe)
         IN  IF stream_name \notin DOMAIN acc.subscriptions
             THEN unsubscribe_loop(
                    [acc EXCEPT !.results = Put(@, timeframe, TRUE)],
                    user_id, symbol, timeframes, k + 1)
             ELSE unsubscribe_loop(
                    unsubscribe_entry(acc, user_id, stream_name, timeframe),
                    user_id, symbol, timeframes, k + 1)

\* unsubscribe_all_entry that never finds the subscription empty
unsubscribe_all_entry_keeps_stream(acc, user_id, stream_name) ==
    [subscriptions |-> Put(acc.subscriptions, stream_name,
                           acc.subscriptions[stream_name] \ {user_id}),
     streams |-> acc.streams]

\* unsubscribe_user_from_all, one stream of the user that is in the registry
unsubscribe_all_entry(acc, user_id, stream_name) ==
    LET users == acc.subscriptions[stream_name] \ {user_id}
        is_empty == users = {}
    IN  [subscriptions |-> IF is_empty
                           THEN Del(acc.subscriptions, stream_name)
                           ELSE Put(acc.subscriptions, stream_name, users),
         streams |-> IF is_empty THEN Append(acc.streams, stream_name)
                     ELSE acc.streams]

\* StreamManager.unsubscribe_user_from_all, the loop over list(user_streams[u])
RECURSIVE unsubscribe_all_loop(_, _, _)
unsubscribe_all_loop(acc, user_id, names) ==
    IF names = <<>> THEN acc
    ELSE LET stream_name == Head(names)
         IN  IF stream_name \notin DOMAIN acc.subscriptions
             THEN unsubscribe_all_loop(acc, user_id, Tail(names))
             ELSE unsubscribe_all_loop(
                    unsubscribe_all_entry(acc, user_id, stream_name),
                    user_id, Tail(names))

\* the orders in which a Python set can be listed
Orders(S) == {q \in [1..Cardinality(S) -> S] : \A a, b \in 1..Cardinality(S) :
                 a # b => q[a] # q[b]}

\* BinanceWebSocketClient.unsubscribe_from_stream for the streams of todo, one
\* after the other, up to the first one whose UNSUBSCRIBE frame is written
RECURSIVE unsubscribe_from_stream(_, _, _)
unsubscribe_from_stream(todo, subscribed, pending) ==
    IF todo = <<>>
    THEN [todo |-> <<>>, subscribed |-> subscribed, pending |-> pending, sent |-> {}]
    ELSE LET stream_name == Head(todo)
         IN  IF stream_name \notin subscribed
             THEN unsubscribe_from_stream(Tail(todo), subscribed, pending)
             ELSE IF state # "connected" \/ ~TransportOpen
             THEN unsubscribe_from_stream(Tail(todo), subscribed \ {stream_name},
                                          pending \ {stream_name})
             ELSE [todo |-> Tail(todo), subscribed |-> subscribed \ {stream_name},
                   pending |-> pending \ {stream_name}, sent |-> {stream_name}]

\* drop_empty that keeps the empty entry
drop_empty_keeps_entry(us, user_id) == [x \in DOMAIN us |-> us[x]]

\* "if user_id in self.user_streams and not self.user_streams[user_id]: del"
drop_empty(us, user_id) ==
    IF user_id \in DOMAIN us /\ us[user_id] = {} THEN Del(us, user_id) ELSE us

\* the loop of upstream unsubscribes of a call, from its start or after a
\* send: it runs to the next frame written, or to the end of the call
Unsubscribing(i, c, us) ==
    LET run == unsubscribe_from_stream(c.todo, subscribed_streams,
                                       pending_subscriptions)
    IN  IF c.todo # <<>> /\ ~websocket_client
        THEN \* self.websocket_client is None: AttributeError, caught
             /\ user_streams' = IF c.op = "unsubscribe"
                                THEN drop_empty(us, c.user) ELSE us
             /\ Return(i, c.op, c.user,
                       IF c.op = "unsubscribe" THEN c.results
                       ELSE Put(EmptyDict, "all", FALSE), {}, FALSE)
             /\ UNCHANGED <<streamVars, upstream>>
        ELSE /\ subscribed_streams' = run.subscribed
             /\ pending_subscriptions' = run.pending
             /\ IF run.sent # {}
                THEN /\ upstream' = Put(upstream, websocket,
                                        upstream[websocket] \ run.sent)
                     /\ calls' = [calls EXCEPT ![i] = [c EXCEPT !.todo = run.todo]]
                     /\ user_streams' = us
                     /\ UNCHANGED returned
                ELSE /\ user_streams' = IF c.op = "unsubscribe"
                                        THEN drop_empty(us, c.user) ELSE us
                     /\ Return(i, c.op, c.user, c.results, {}, FALSE)
                     /\ UNCHANGED upstream

\* UNSUBSCRIBE frames the step of Unsubscribing writes
UnsubscribeFrames(c) ==
    IF c.todo # <<>> /\ ~websocket_client THEN {}
    ELSE unsubscribe_from_stream(c.todo, subscribed_streams,
                                 pending_subscriptions).sent

UnsubscribeUserFromPair(i, user_id, symbol, timeframes) ==
    /\ CanCall(i)
    /\ websocket_client
    /\ ncalls' = ncalls + 1
    /\ LET r == unsubscribe_loop(
                    [subscriptions |-> subscriptions,
                     user_streams |-> user_streams,
                     streams |-> <<>>, results |-> EmptyDict],
                    user_id, symbol, timeframes, 1)
           c == [IdleCall EXCEPT !.op = "unsubscribe", !.user = user_id,
                                 !.symbol = symbol, !.timeframes = timeframes,
                                 !.todo = r.streams, !.results = r.results]
       IN  /\ subscriptions' = r.subscriptions
           /\ message_stats' = follow(message_stats, subscriptions, r.subscriptions)
           /\ Unsubscribing(i, c, r.user_streams)
           /\ obs' = Counted([obs EXCEPT !.down = Bump(@, Live(subscriptions) \ Live(r.subscriptions)),
                                 !.unsub_frames = Bump(@, UnsubscribeFrames(c))])
    /\ UNCHANGED <<websocket_client, manager_tasks, lifecycle, connVars,
                   pinged, clock, taskVars>>
    /\ UNCHANGED inbound

UnsubscribeUserFromAll(i, user_id, names) ==
    /\ CanCall(i)
    /\ ncalls' = ncalls + 1
    /\ IF user_id \notin DOMAIN user_streams
       THEN /\ Return(i, "unsubscribe_all", user_id,
                      Put(EmptyDict, "all", TRUE), {}, FALSE)
            /\ UNCHANGED <<regVars, streamVars, upstream, obs>>
       ELSE /\ LET r == unsubscribe_all_loop(
                            [subscriptions |-> subscriptions, streams |-> <<>>],
                            user_id, names)
                   c == [IdleCall EXCEPT !.op = "unsubscribe_all",
                                         !.user = user_id, !.todo = r.streams,
                                         !.results = Put(EmptyDict, "all", TRUE)]
               IN  /\ subscriptions' = r.subscriptions
                   /\ message_stats' = follow(message_stats, subscriptions, r.subscriptions)
                   /\ Unsubscribing(i, c, Del(user_streams, user_id))
                   /\ obs' = Counted([obs EXCEPT !.down = Bump(@, Live(subscriptions) \ Live(r.subscriptions)),
                                         !.unsub_frames = Bump(@, UnsubscribeFrames(c))])
    /\ UNCHANGED <<websocket_client, manager_tasks, lifecycle, connVars,
                   pinged, clock, taskVars>>
    /\ UNCHANGED inbound

\* the send of an UNSUBSCRIBE frame has completed or raised (the client
\* catches it); the loop goes on with the next stream
UnsubscribeSent(i) ==
    /\ calls[i].op \in {"unsubscribe", "unsubscribe_all"}
    /\ Unsubscribing(i, calls[i], user_streams)
    /\ obs' = Counted([obs EXCEPT !.unsub_frames = Bump(@, UnsubscribeFrames(calls[i])),
                                  !.messages_sent = send_message(@, TRUE)])
    /\ UNCHANGED <<websocket_client, subscriptions, message_stats, manager_tasks, ncalls,
                   lifecycle, connVars, pinged, clock, taskVars>>
    /\ UNCHANGED inbound

\* ------------------------------------------------------------ statistics
\* defaultdict(set).__getitem__: a missing key is inserted with an empty set
getitem(us, user_id) ==
    IF user_id \in DOMAIN us THEN [dict |-> us, value |-> us[user_id]]
    ELSE [dict |-> Put(us, user_id, {}), value |-> {}]

\* get_user_subscriptions without its "not in self.user_streams" return
get_user_subscriptions_unguarded(user_id) ==
    LET e == getitem(user_streams, user_id)
    IN  [user_streams |-> e.dict,
         value |-> {[stream_name |-> n,
                     users_count |-> Cardinality(subscriptions[n])] :
                      n \in e.value \cap DOMAIN subscriptions}]

\* StreamManager.get_user_subscriptions: the list it returns and the
\* user_streams it leaves
get_user_subscriptions(user_id) ==
    IF user_id \notin DOMAIN user_streams
    THEN [user_streams |-> user_streams, value |-> {}]
    ELSE LET e == getitem(user_streams, user_id)
         IN  [user_streams |-> e.dict,
              value |-> {[stream_name |-> n,
                          users_count |-> Cardinality(subscriptions[n])] :
                           n \in e.value \cap DOMAIN subscriptions}]

\* BinanceWebSocketClient.get_connection_stats
get_connection_stats ==
    [state |-> state, subscribed_streams |-> subscribed_streams,
     pending_subscriptions |-> pending_subscriptions,
     reconnect_attempts |-> reconnect_attempts,
     is_connected |-> state = "connected" /\ TransportOpen]

\* StreamManager.get_manager_stats
get_manager_stats ==
    [subscriptions_count |-> Cardinality(DOMAIN subscriptions),
     users_count |-> Cardinality(DOMAIN user_streams),
     users |-> UNION {subscriptions[n] : n \in DOMAIN subscriptions},
     websocket |-> IF websocket_client THEN {get_connection_stats} ELSE {}]

GetUserSubscriptions(user_id) ==
    /\ user_streams' = get_user_subscriptions(user_id).user_streams
    /\ obs' = [obs EXCEPT !.stats = [op |-> "get_user_subscriptions",
                                     user |-> user_id,
                                     value |-> get_user_subscriptions(user_id).value]]
    /\ UNCHANGED <<websocket_client, subscriptions, message_stats, manager_tasks, callVars,
                   lifecycle, connVars, upstream, streamVars, pinged, clock, taskVars>>
    /\ UNCHANGED inbound

GetManagerStats ==
    /\ obs' = [obs EXCEPT !.stats = [op |-> "get_manager_stats", user |-> 0,
                                     value |-> get_manager_stats]]
    /\ UNCHANGED <<mgrVars, connVars, upstream, streamVars, pinged, clock, taskVars>>
    /\ UNCHANGED inbound

GetConnectionStats ==
    /\ websocket_client
    /\ obs' = [obs EXCEPT !.stats = [op |-> "get_connection_stats", user |-> 0,
                                     value |-> get_connection_stats]]
    /\ UNCHANGED <<mgrVars, connVars, upstream, streamVars, pinged, clock, taskVars>>
    /\ UNCHANGED inbound

\* the clock of the heartbeat: the time in seconds, the client's
\* last_ping_time and last_pong_time, the time the server's last pong
\* arrived, the times the sleeps of the ping loop and of the health check
\* end, and whether a ping has gone unanswered for more than ping_timeout
InitClock == [now |-> 1, last_ping_time |-> 0, last_pong_time |-> 0,
              pong |-> 0, ping_wake |-> 0, health_wake |-> 0, late |-> FALSE]
\* time advances in steps of ping_timeout seconds
TimeStep == ping_timeout

\* ----------------------------------------------------- client: reconnect
Min(a, b) == IF a < b THEN a ELSE b
RECURSIVE Pow(_, _)
Pow(b, e) == IF e = 0 THEN 1 ELSE b * Pow(b, e - 1)

\* backoff_delay with the exponent one too high
backoff_delay_skips_first(attempts) ==
    Min(reconnect_delay * Pow(backoff_multiplier, attempts),
        max_reconnect_delay)

\* the delay _handle_reconnection sleeps, from the incremented counter
backoff_delay(attempts) ==
    Min(reconnect_delay * Pow(backoff_multiplier, attempts - 1),
        max_reconnect_delay)

\* _handle_reconnection up to its sleep, entered with the state st
handle_reconnection(st, attempts) ==
    IF st = "closed"
    THEN [state |-> st, attempts |-> attempts, pc |-> "done",
          delay |-> 0, error |-> 0]
    ELSE IF attempts >= max_reconnect_attempts
    THEN [state |-> "closed", attempts |-> attempts, pc |-> "done",
          delay |-> 0, error |-> 1]
    ELSE [state |-> "reconnecting", attempts |-> attempts + 1, pc |-> "sleep",
          delay |-> backoff_delay(attempts + 1), error |-> 0]

\* task 0 is the start_listening() task, task h > 0 a health check task
HealthIds == 1..MaxConnects
Tasks == {0} \cup HealthIds
NoTask == [pc |-> "none", delay |-> 0]
TaskPc(t) == IF t = 0 THEN listener.pc ELSE health[t].pc
TaskDelay(t) == IF t = 0 THEN listener.delay ELSE health[t].delay
Reconnecting(t) == TaskPc(t) \in {"sleep", "connecting", "resub"}
SetListener(t, pc, d) ==
    IF t = 0 THEN [listener EXCEPT !.pc = pc, !.delay = d] ELSE listener
SetHealth(t, pc, d) ==
    IF t = 0 THEN health ELSE [health EXCEPT ![t] = [pc |-> pc, delay |-> d]]

\* Connected without the reset of reconnect_attempts
Connected_keeps_attempts(t) ==
    /\ nconn < MaxConnects
    /\ nconn' = nconn + 1
    /\ websocket' = nconn + 1
    /\ open' = open \cup {nconn + 1}
    /\ state' = "connected"
    /\ reconnect_attempts' = reconnect_attempts
    /\ ping_task' = TRUE
    /\ health_check_task' = nconn + 1
    /\ health' = [SetHealth(t, IF subscribed_streams # {} THEN "resub" ELSE "done", 0)
                    EXCEPT ![nconn + 1] = [pc |-> "idle", delay |-> 0]]
    /\ upstream' = Put(upstream, nconn + 1, subscribed_streams)

\* Connected without _start_background_tasks
Connected_without_heartbeat(t) ==
    /\ nconn < MaxConnects
    /\ nconn' = nconn + 1
    /\ websocket' = nconn + 1
    /\ open' = open \cup {nconn + 1}
    /\ state' = "connected"
    /\ reconnect_attempts' = 0
    /\ ping_task' = ping_task
    /\ health_check_task' = health_check_task
    /\ health' = SetHealth(t, IF subscribed_streams # {} THEN "resub" ELSE "done", 0)
    /\ upstream' = Put(upstream, nconn + 1, subscribed_streams)

\* Connected without _resubscribe_streams
Connected_without_replay(t) ==
    /\ nconn < MaxConnects
    /\ nconn' = nconn + 1
    /\ websocket' = nconn + 1
    /\ open' = open \cup {nconn + 1}
    /\ state' = "connected"
    /\ reconnect_attempts' = 0
    /\ ping_task' = TRUE
    /\ health_check_task' = nconn + 1
    /\ health' = [SetHealth(t, IF subscribed_streams # {} THEN "resub" ELSE "done", 0)
                    EXCEPT ![nconn + 1] = [pc |-> "idle", delay |-> 0]]
    /\ upstream' = Put(upstream, nconn + 1, {})

\* connect() after websockets.connect returned: the new transport, the
\* state, the counter, _start_background_tasks, _resubscribe_streams
Connected(t) ==
    /\ nconn < MaxConnects
    /\ nconn' = nconn + 1
    /\ websocket' = nconn + 1
    /\ open' = open \cup {nconn + 1}
    /\ state' = "connected"
    /\ reconnect_attempts' = 0
    /\ ping_task' = TRUE
    /\ health_check_task' = nconn + 1
    /\ health' = [SetHealth(t, IF subscribed_streams # {} THEN "resub" ELSE "done", 0)
                    EXCEPT ![nconn + 1] = [pc |-> "idle", delay |-> 0]]
    /\ upstream' = Put(upstream, nconn + 1, subscribed_streams)

\* the server closes a transport, or the network drops it
ServerClose(w) ==
    /\ w \in open
    /\ open' = open \ {w}
    /\ upstream' = Del(upstream, w)
    /\ obs' = IF w = websocket /\ state = "connected"
              THEN [obs EXCEPT !.snap =
                      [taken |-> TRUE,
                       streams |-> {n \in DOMAIN subscriptions :
                                       subscriptions[n] # {}},
                       idle |-> InFlight = {}]]
              ELSE obs
    /\ UNCHANGED <<mgrVars, state, websocket, reconnect_attempts, nconn,
                   streamVars, pinged, clock, taskVars>>
    /\ UNCHANGED inbound

\* start_listening: the iteration over the transport ends
\*   "end"          the iterator is exhausted (normal closure)
\*   "closed"       ConnectionClosed
\*   "ws_exception" another WebSocketException
\*   "exception"    any other Exception
ListenEnds(kind) ==
    /\ listener.pc = "listening"
    /\ listener.ws \notin open
    /\ inbound.handling = 0
    /\ LET reconnects == kind = "ws_exception" \/ (kind = "closed" /\ TransportOpen)
           r == handle_reconnection("disconnected", reconnect_attempts)
       IN  /\ state' = IF kind = "end" THEN state
                       ELSE IF reconnects THEN r.state ELSE "disconnected"
           /\ reconnect_attempts' = IF reconnects THEN r.attempts
                                    ELSE reconnect_attempts
           /\ listener' = IF reconnects THEN SetListener(0, r.pc, r.delay)
                          ELSE SetListener(0, "done", 0)
           /\ obs' = IF reconnects
                     THEN [obs EXCEPT !.reconnect_errors = @ + r.error]
                     ELSE obs
    /\ UNCHANGED <<mgrVars, websocket, open, nconn, upstream, streamVars,
                   pinged, clock, ping_task, health_check_task, health>>
    /\ UNCHANGED inbound

\* _handle_reconnection: the sleep is over, connect() is called
ReconnectWake(t) ==
    /\ TaskPc(t) = "sleep"
    /\ IF state \in {"connected", "connecting"}
       THEN \* "Already connected or connecting": connect() returns True
            /\ listener' = SetListener(t, "done", 0)
            /\ health' = SetHealth(t, "done", 0)
            /\ obs' = [obs EXCEPT !.connect = "early"]
            /\ UNCHANGED state
       ELSE /\ state' = "connecting"
            /\ listener' = SetListener(t, "connecting", 0)
            /\ health' = SetHealth(t, "connecting", 0)
            /\ obs' = [obs EXCEPT !.run_connects = @ + 1]
    /\ UNCHANGED <<mgrVars, websocket, reconnect_attempts, open, nconn,
                   upstream, streamVars, pinged, clock, ping_task, health_check_task>>
    /\ UNCHANGED inbound

\* the transport of a reconnect opens
ReconnectConnected(t) ==
    /\ TaskPc(t) = "connecting"
    /\ Connected(t)
    /\ listener' = SetListener(t, IF subscribed_streams # {} THEN "resub"
                                  ELSE "done", 0)
    /\ obs' = [obs EXCEPT !.connect = "true",
                          !.reconnect_errors = 0, !.run_connects = 0,
                          !.prev_run = obs.run_connects - 1,
                          !.snap = NoSnap,
                          !.replay = IF obs.snap.taken
                                     THEN [done |-> TRUE,
                                           sent |-> subscribed_streams,
                                           snap |-> obs.snap.streams,
                                           quiet |-> obs.snap.idle]
                                     ELSE @]
    /\ UNCHANGED <<mgrVars, streamVars, pinged, clock>>
    /\ UNCHANGED inbound

\* the transport of a reconnect fails to open: connect() raises and
\* _handle_reconnection calls itself
ReconnectFailed(t) ==
    /\ TaskPc(t) = "connecting"
    /\ LET r == handle_reconnection("disconnected", reconnect_attempts)
       IN  /\ state' = r.state
           /\ reconnect_attempts' = r.attempts
           /\ listener' = SetListener(t, r.pc, r.delay)
           /\ health' = SetHealth(t, r.pc, r.delay)
           /\ obs' = [obs EXCEPT !.connect = "raised",
                                 !.reconnect_errors = @ + r.error]
    /\ UNCHANGED <<mgrVars, websocket, open, nconn, upstream, streamVars,
                   pinged, clock, ping_task, health_check_task>>
    /\ UNCHANGED inbound

\* _resubscribe_streams: the send of the replayed SUBSCRIBE completes (ok)
\* or raises (~ok, caught and logged)
Resubscribed(t, ok) ==
    /\ TaskPc(t) = "resub"
    /\ ok \/ ~TransportOpen
    /\ pending_subscriptions' = IF ok
                                THEN pending_subscriptions \cup subscribed_streams
                                ELSE pending_subscriptions
    /\ listener' = SetListener(t, "done", 0)
    /\ health' = SetHealth(t, "done", 0)
    /\ obs' = Sent([obs EXCEPT !.messages_sent = send_message(@, ok)])
    /\ UNCHANGED <<mgrVars, connVars, upstream, subscribed_streams, pinged, clock,
                   ping_task, health_check_task>>
    /\ UNCHANGED inbound

\* ----------------------------------------------------- client: heartbeat
\* _ping_loop sends a ping and records last_ping_time
Ping ==
    /\ ping_task
    /\ state = "connected"
    /\ TransportOpen
    /\ ~pinged
    /\ pinged' = TRUE
    /\ UNCHANGED clock
    /\ UNCHANGED <<mgrVars, connVars, upstream, streamVars, taskVars, obs>>
    /\ UNCHANGED inbound

\* _ping_loop wakes up with the state no longer CONNECTED and ends
PingEnds ==
    /\ ping_task
    /\ state # "connected"
    /\ ping_task' = FALSE
    /\ UNCHANGED <<mgrVars, connVars, upstream, streamVars, pinged, clock,
                   health_check_task, health, listener, obs>>
    /\ UNCHANGED inbound

\* _health_check_loop finds the last ping older than ping_timeout and no
\* later pong (last_pong_time is never written): _handle_reconnection
HealthTimeout(h) ==
    /\ health[h].pc = "idle"
    /\ state = "connected"
    /\ pinged
    /\ LET r == handle_reconnection(state, reconnect_attempts)
       IN  /\ state' = r.state
           /\ reconnect_attempts' = r.attempts
           /\ health' = SetHealth(h, r.pc, r.delay)
           /\ obs' = [obs EXCEPT !.reconnect_errors = @ + r.error]
    /\ UNCHANGED <<mgrVars, websocket, open, nconn, upstream, streamVars,
                   pinged, clock, ping_task, health_check_task, listener>>
    /\ UNCHANGED inbound

\* _health_check_loop wakes up with the state no longer CONNECTED and ends
HealthEnds(h) ==
    /\ health[h].pc = "idle"
    /\ state # "connected"
    /\ health' = SetHealth(h, "done", 0)
    /\ UNCHANGED <<mgrVars, connVars, upstream, streamVars, pinged, clock, ping_task,
                   health_check_task, listener, obs>>
    /\ UNCHANGED inbound

\* ------------------------------------------- client: heartbeat in time
\* the health check's test of the last ping against the clock
ping_timeout_detected(last_ping_time, last_pong_time, current_time) ==
    /\ last_ping_time > 0
    /\ last_pong_time < last_ping_time
    /\ current_time - last_ping_time > ping_timeout

\* the server has answered the last ping
Answered == clock.pong >= clock.last_ping_time

\* a loop of the heartbeat whose asyncio.sleep is over
PingDue == ping_task /\ state = "connected" /\ clock.now >= clock.ping_wake
HealthDue(h) ==
    /\ h = health_check_task
    /\ health[h].pc = "idle"
    /\ state = "connected"
    /\ clock.now >= clock.health_wake

\* time passes while no loop of the heartbeat is due
Tick ==
    /\ clock.now + TimeStep <= MaxClock
    /\ ~PingDue
    /\ \A h \in HealthIds : ~HealthDue(h)
    /\ clock' = [clock EXCEPT
                   !.now = @ + TimeStep,
                   !.late = @ \/ (~Answered /\ clock.now + TimeStep
                                     - clock.last_ping_time > ping_timeout)]
    /\ UNCHANGED <<mgrVars, connVars, upstream, streamVars, pinged, taskVars,
                   obs>>
    /\ UNCHANGED inbound

\* _ping_loop, one iteration: websocket.ping() when the transport is open,
\* last_ping_time = time.time(), asyncio.sleep(ping_interval)
PingAt ==
    /\ PingDue
    /\ IF TransportOpen
       THEN /\ pinged' = TRUE
            /\ clock' = [clock EXCEPT !.last_ping_time = clock.now,
                                      !.ping_wake = clock.now + ping_interval]
       ELSE /\ pinged' = pinged
            /\ clock' = [clock EXCEPT !.ping_wake = clock.now + ping_interval]
    /\ UNCHANGED <<mgrVars, connVars, upstream, streamVars, taskVars, obs>>
    /\ UNCHANGED inbound

\* the server's pong arrives; the client records it nowhere
Pong ==
    /\ TransportOpen
    /\ ~Answered
    /\ clock' = [clock EXCEPT !.pong = clock.now]
    /\ UNCHANGED <<mgrVars, connVars, upstream, streamVars, pinged, taskVars,
                   obs>>
    /\ UNCHANGED inbound

\* _health_check_loop, one iteration: _handle_reconnection on a ping
\* timeout, else asyncio.sleep(30)
HealthCheckAt(h) ==
    /\ HealthDue(h)
    /\ IF ping_timeout_detected(clock.last_ping_time, clock.last_pong_time,
                                clock.now)
       THEN HealthTimeout(h)
       ELSE /\ clock' = [clock EXCEPT
                           !.health_wake = clock.now + health_check_interval]
            /\ UNCHANGED <<mgrVars, connVars, upstream, streamVars, pinged,
                           taskVars, obs>>
    /\ UNCHANGED inbound

\* ------------------------------------------------------ inbound frames
\* the "k" object of a kline frame: a required field missing or all
\* present, open and close time, open, close, high and low price, volume,
\* and the closed flag "x" (the other fields are present and well-formed)
Klines == [missing : BOOLEAN, t : 1..MaxTime, T : 1..MaxTime,
           o : 1..MaxPrice, c : 1..MaxPrice, h : 1..MaxPrice,
           l : 1..MaxPrice, v : {-1, 1}, x : BOOLEAN]
Frames == [stream : {get_kline_stream_name("BTCUSDT", tf) : tf \in {"1m", "5m"}},
           k : Klines]
Max(a, b) == IF a > b THEN a ELSE b

\* validate_binance_kline_data_detailed: the first element of its result
validate_binance_kline_data_detailed(k) ==
    /\ ~k.missing
    /\ k.t > 0 /\ k.T > 0
    /\ k.t < k.T
    /\ k.o > 0 /\ k.c > 0 /\ k.h > 0 /\ k.l > 0
    /\ k.h >= Max(k.o, k.c)
    /\ k.l <= Min(k.o, k.c)
    /\ k.v >= 0

\* validate_binance_kline_data returns that element alone, a bool
validate_binance_kline_data(k) == validate_binance_kline_data_detailed(k)

\* "is_valid, error_msg = value": a bool cannot be unpacked (TypeError)
unpack_pair(value) ==
    IF value \in BOOLEAN THEN [raises |-> TRUE, is_valid |-> FALSE]
    ELSE [raises |-> FALSE, is_valid |-> value[1]]

\* _handle_stream_message that hands every frame to the handler
handle_stream_message_unchecked(message) ==
    IF message.stream = message.stream THEN "handler" ELSE "TypeError"

\* _handle_stream_message for a kline frame: what leaves it
handle_stream_message(message) ==
    LET r == unpack_pair(validate_binance_kline_data(message.k))
    IN  IF r.raises THEN "TypeError"
        ELSE IF ~r.is_valid THEN "BinanceDataError"
        ELSE "handler"

\* _handle_kline_message: the calls of _process_closed_candle, and so of
\* signal_aggregator.process_candle_update, for one frame
handle_kline_message(message) ==
    IF message.k.missing THEN 0
    ELSE IF message.stream \notin DOMAIN subscriptions THEN 0
    ELSE IF subscriptions[message.stream] = {} THEN 0
    ELSE IF message.k.x THEN 1 ELSE 0

\* a stream name without "@kline_", which no subscription is created for
TickerStream == <<"btcusdt@ticker">>
\* "@kline_" in stream_name
is_kline_stream(stream_name) == Len(stream_name) = 2

\* _handle_message for a frame with "stream" and "data": what leaves
\* _handle_stream_message, which validates the frames of kline streams only
handle_message(message) ==
    IF is_kline_stream(message.stream) THEN handle_stream_message(message)
    ELSE "handler"

\* StreamSubscription.update_stats
update_stats(ms, stream_name) ==
    [ms EXCEPT !.message_count[stream_name] = @ + 1,
               !.last_data_time = @ \cup {stream_name}]

\* _handle_websocket_message whose update_stats is not guarded by
\* "stream_name in self.subscriptions"
handle_websocket_message_unguarded(ms, subs, stream_name) ==
    [ms EXCEPT !.total_messages_processed = @ + 1,
               !.message_count = Put(@, stream_name,
                   IF stream_name \in DOMAIN @ THEN @[stream_name] + 1 ELSE 1),
               !.last_data_time = @ \cup {stream_name}]

\* StreamManager._handle_websocket_message up to its first await: the
\* counters of the subscription if there is one, and the total
handle_websocket_message(ms, subs, stream_name) ==
    LET counted == IF stream_name \in DOMAIN subs
                   THEN update_stats(ms, stream_name) ELSE ms
    IN  [counted EXCEPT !.total_messages_processed = @ + 1]

\* the calls of the closed-candle pipeline for a frame the manager handles:
\* parse_stream_name finds a kline stream, _handle_kline_message runs
pipeline_calls(message) ==
    IF is_kline_stream(message.stream) THEN handle_kline_message(message) ELSE 0

\* start_listening reads a frame and _handle_message handles it; whatever
\* _handle_stream_message raises is caught and logged there
FrameArrives(message) ==
    /\ listener.pc = "listening"
    /\ listener.ws \in open
    /\ inbound.queue = <<>> /\ inbound.handling = 0
    /\ LET delivered == handle_message(message) = "handler"
       IN  /\ obs' = [obs EXCEPT !.frame =
                     [seen |-> TRUE, stream |-> message.stream, k |-> message.k,
                      handler |-> IF delivered THEN 1 ELSE 0,
                      pipeline |-> IF delivered THEN pipeline_calls(message)
                                   ELSE 0,
                      raised |-> FALSE]]
           /\ message_stats' = IF delivered
                               THEN handle_websocket_message(
                                      message_stats, subscriptions, message.stream)
                               ELSE message_stats
    /\ UNCHANGED <<websocket_client, subscriptions, user_streams, manager_tasks,
                   calls, ncalls, returned, lifecycle, connVars, upstream,
                   streamVars, pinged, clock, taskVars, inbound>>

\* a valid kline of a closed candle
ClosedKline == [missing |-> FALSE, t |-> 1, T |-> 2, o |-> 1, c |-> 1, h |-> 1,
                l |-> 1, v |-> 1, x |-> TRUE]

\* the server sends a frame on the transport the listen task reads; the
\* frames of a transport are numbered in the order they are sent
ServerSends(stream_name) ==
    /\ listener.pc = "listening"
    /\ listener.ws \in open
    /\ inbound.sent < MaxFrames
    /\ inbound' = [inbound EXCEPT
          !.sent = @ + 1,
          !.queue = Append(@, [n |-> inbound.sent + 1, stream |-> stream_name,
                               k |-> IF is_kline_stream(stream_name)
                                     THEN ClosedKline ELSE NoKline,
                               error |-> FALSE])]
    /\ UNCHANGED <<mgrVars, connVars, upstream, streamVars, pinged, clock,
                   taskVars, obs>>

\* the server answers the SUBSCRIBE of a stream with a throttling error: it
\* does not hold the stream, and an error frame is on its way to the client
ServerThrottles(stream_name) ==
    /\ listener.pc = "listening"
    /\ listener.ws = websocket
    /\ TransportOpen
    /\ inbound.sent < MaxFrames
    /\ stream_name \in pending_subscriptions
    /\ stream_name \in upstream[websocket]
    /\ upstream' = Put(upstream, websocket, upstream[websocket] \ {stream_name})
    /\ inbound' = [inbound EXCEPT
          !.sent = @ + 1,
          !.queue = Append(@, [n |-> inbound.sent + 1, stream |-> stream_name,
                               k |-> NoKline, error |-> TRUE])]
    /\ UNCHANGED <<mgrVars, connVars, streamVars, pinged, clock, taskVars, obs>>

\* _handle_message: an error frame goes to _handle_error_message, which
\* logs it and awaits the error handler, which logs it; nothing is retried
handle_frame(message) ==
    IF message.error THEN "error_handler" ELSE handle_message(message)

\* the frame "async for message in self.websocket" yields next, taken from
\* the wrong end of what has arrived
listen_next_newest(queue) == [message |-> queue[Len(queue)],
                              rest |-> SubSeq(queue, 1, Len(queue) - 1)]

\* the frame "async for message in self.websocket" yields next: the oldest
\* one that has arrived
listen_next(queue) == [message |-> Head(queue), rest |-> Tail(queue)]

\* start_listening takes the next frame and awaits _handle_message, which
\* runs up to the first await of the manager's handler; a frame that is
\* dropped before the handler is done with in the same step
ListenReads ==
    /\ listener.pc = "listening"
    /\ inbound.handling = 0
    /\ inbound.queue # <<>>
    /\ LET next == listen_next(inbound.queue)
           message == next.message
           delivered == handle_frame(message) = "handler"
       IN  /\ inbound' = [inbound EXCEPT
                 !.queue = next.rest,
                 !.last = message.n,
                 !.handling = IF delivered THEN message.n ELSE 0,
                 !.pipeline = IF delivered THEN pipeline_calls(message) ELSE 0]
           /\ message_stats' = IF delivered
                               THEN handle_websocket_message(
                                      message_stats, subscriptions, message.stream)
                               ELSE message_stats
    /\ UNCHANGED <<websocket_client, subscriptions, user_streams, manager_tasks,
                   calls, ncalls, returned, lifecycle, connVars, upstream,
                   streamVars, pinged, clock, taskVars, obs>>

\* the manager's handler and _handle_message return: the listen loop goes
\* on to the next frame
ListenHandled ==
    /\ inbound.handling # 0
    /\ inbound' = [inbound EXCEPT !.handling = 0, !.pipeline = 0]
    /\ UNCHANGED <<mgrVars, connVars, upstream, streamVars, pinged, clock,
                   taskVars, obs>>

\* ------------------------------------------------ StreamManager lifecycle
\* is_connected()
is_connected == state = "connected" /\ TransportOpen

\* start() up to "await self.websocket_client.connect()": a new client
\* object replaces the old one, whose tasks and transports leave the model
StartCall ==
    /\ lifecycle = "idle"
    /\ ~(websocket_client /\ is_connected)
    /\ websocket_client' = TRUE
    /\ state' = "connecting"
    /\ websocket' = 0
    /\ subscribed_streams' = {}
    /\ pending_subscriptions' = {}
    /\ reconnect_attempts' = 0
    /\ pinged' = FALSE
    /\ clock' = [InitClock EXCEPT !.now = clock.now]
    /\ ping_task' = FALSE
    /\ health_check_task' = 0
    /\ health' = [h \in HealthIds |-> NoTask]
    /\ listener' = [pc |-> "none", delay |-> 0, ws |-> 0]
    /\ inbound' = InitInbound
    /\ open' = {}
    /\ upstream' = EmptyDict
    /\ calls' = [i \in 1..MaxTasks |->
                   IF calls[i].op = "subscribe"
                   THEN [calls[i] EXCEPT !.stale = TRUE] ELSE calls[i]]
    /\ lifecycle' = "start_connecting"
    /\ obs' = [obs EXCEPT !.reconnect_errors = 0, !.run_connects = 0,
                          !.prev_run = 0, !.explicit = FALSE,
                          !.snap = NoSnap, !.replay = NoReplay,
                          !.connect = "none", !.start = "none",
                          !.messages_sent = 0]
    /\ UNCHANGED <<subscriptions, message_stats, user_streams, manager_tasks, ncalls,
                   returned, nconn>>

\* the first transport opens; start() goes on to the janitor tasks and
\* creates the listen task, after the replay of the streams if there are any
StartConnected ==
    /\ lifecycle = "start_connecting"
    /\ Connected(0)
    /\ IF subscribed_streams # {}
       THEN /\ lifecycle' = "start_resub"
            /\ obs' = [obs EXCEPT !.connect = "true"]
            /\ UNCHANGED <<manager_tasks, listener>>
       ELSE /\ lifecycle' = "idle"
            /\ manager_tasks' = TRUE
            /\ listener' = [pc |-> "listening", delay |-> 0, ws |-> nconn + 1]
            /\ obs' = [obs EXCEPT !.connect = "true", !.start = "ok"]
    /\ UNCHANGED <<websocket_client, subscriptions, message_stats, user_streams, calls,
                   ncalls, returned, streamVars, pinged, clock>>
    /\ UNCHANGED inbound

\* the send of the replayed SUBSCRIBE of the first connect returns
StartResubscribed(ok) ==
    /\ lifecycle = "start_resub"
    /\ ok \/ ~TransportOpen
    /\ pending_subscriptions' = IF ok
                                THEN pending_subscriptions \cup subscribed_streams
                                ELSE pending_subscriptions
    /\ lifecycle' = "idle"
    /\ manager_tasks' = TRUE
    /\ listener' = [pc |-> "listening", delay |-> 0, ws |-> websocket]
    /\ obs' = [obs EXCEPT !.start = "ok",
                          !.messages_sent = IF obs.counting
                                            THEN send_message(@, ok) ELSE @]
    /\ UNCHANGED <<websocket_client, subscriptions, message_stats, user_streams, calls,
                   ncalls, returned, connVars, upstream, subscribed_streams,
                   pinged, clock, ping_task, health_check_task, health>>
    /\ UNCHANGED inbound

\* StartFailed whose start() has already started the janitor tasks
StartFailed_keeps_janitor ==
    /\ lifecycle = "start_connecting"
    /\ state' = "disconnected"
    /\ lifecycle' = "idle"
    /\ manager_tasks' = TRUE
    /\ obs' = [obs EXCEPT !.connect = "raised", !.start = "raised"]
    /\ UNCHANGED <<websocket_client, subscriptions, message_stats, user_streams,
                   calls, ncalls, returned, websocket,
                   reconnect_attempts, open, nconn, upstream, streamVars,
                   pinged, clock, taskVars>>
    /\ UNCHANGED inbound

\* the first transport fails to open: connect() raises, start() raises
StartFailed ==
    /\ lifecycle = "start_connecting"
    /\ state' = "disconnected"
    /\ lifecycle' = "idle"
    /\ obs' = [obs EXCEPT !.connect = "raised", !.start = "raised"]
    /\ UNCHANGED <<websocket_client, subscriptions, message_stats, user_streams,
                   manager_tasks, calls, ncalls, returned, websocket,
                   reconnect_attempts, open, nconn, upstream, streamVars,
                   pinged, clock, taskVars>>
    /\ UNCHANGED inbound

\* stop(), from its call or from one of its waits to its next wait or end:
\*   "idle"                -> _stop_background_tasks of the manager
\*   "stop_manager_tasks"  -> disconnect(): state CLOSED, cancel the tasks
\*   "stop_client_tasks"   -> websocket.close()
\*   "stop_closing"        -> clear the client, drop it, clear the registry
Stop(from) ==
    /\ lifecycle = from
    /\ from \in {"idle", "stop_manager_tasks", "stop_client_tasks", "stop_closing"}
    /\ LET waits_manager == from = "idle" /\ manager_tasks
           at_disconnect == ~waits_manager /\ from \in {"idle", "stop_manager_tasks"}
           disconnects == at_disconnect /\ websocket_client /\ state # "closed"
           alive == \/ ping_task
                    \/ /\ health_check_task # 0
                       /\ health[health_check_task].pc \notin {"none", "done"}
           waits_tasks == disconnects /\ alive
           at_close == (disconnects /\ ~alive) \/ from = "stop_client_tasks"
           waits_close == at_close /\ TransportOpen
           cleared == (at_close /\ ~waits_close) \/ from = "stop_closing"
           finished == cleared \/ (at_disconnect /\ ~disconnects)
       IN  /\ manager_tasks' = FALSE
           /\ state' = IF disconnects THEN "closed" ELSE state
           /\ ping_task' = IF disconnects THEN FALSE ELSE ping_task
           /\ health' = IF waits_tasks /\ health_check_task # 0
                        THEN SetHealth(health_check_task, "done", 0)
                        ELSE health
           /\ health_check_task' = IF at_close THEN 0 ELSE health_check_task
           /\ open' = IF waits_close THEN open \ {websocket} ELSE open
           /\ upstream' = IF waits_close THEN Del(upstream, websocket)
                          ELSE upstream
           /\ websocket' = IF cleared THEN 0 ELSE websocket
           /\ subscribed_streams' = IF cleared THEN {} ELSE subscribed_streams
           /\ pending_subscriptions' = IF cleared THEN {}
                                       ELSE pending_subscriptions
           /\ websocket_client' = IF finished THEN FALSE ELSE websocket_client
           /\ subscriptions' = IF finished THEN EmptyDict ELSE subscriptions
           /\ message_stats' = IF finished
                               THEN follow(message_stats, subscriptions, EmptyDict)
                               ELSE message_stats
           /\ user_streams' = IF finished THEN EmptyDict ELSE user_streams
           /\ lifecycle' = IF waits_manager THEN "stop_manager_tasks"
                           ELSE IF waits_tasks THEN "stop_client_tasks"
                           ELSE IF waits_close THEN "stop_closing"
                           ELSE "idle"
           /\ obs' = IF at_disconnect /\ websocket_client
                     THEN [obs EXCEPT !.explicit = TRUE, !.snap = NoSnap]
                     ELSE obs
    /\ UNCHANGED <<calls, ncalls, returned, reconnect_attempts, nconn, pinged, clock,
                   listener>>
    /\ UNCHANGED inbound

\* ------------------------------------------------------------ the system
Constructed ==
    /\ websocket_client = FALSE
    /\ subscriptions = EmptyDict
    /\ user_streams = EmptyDict
    /\ manager_tasks = FALSE
    /\ calls = [i \in 1..MaxTasks |-> IdleCall]
    /\ ncalls = 0
    /\ returned = NoReturn
    /\ lifecycle = "idle"
    /\ state = "disconnected"
    /\ websocket = 0
    /\ subscribed_streams = {}
    /\ pending_subscriptions = {}
    /\ reconnect_attempts = 0
    /\ pinged = FALSE
    /\ clock = InitClock
    /\ ping_task = FALSE
    /\ health_check_task = 0
    /\ health = [h \in HealthIds |-> NoTask]
    /\ listener = [pc |-> "none", delay |-> 0, ws |-> 0]
    /\ open = {}
    /\ nconn = 0
    /\ upstream = EmptyDict
    /\ message_stats = InitStats
    /\ inbound = InitInbound

Init == Constructed /\ obs = InitObs

ConsumerCall ==
    \E i \in 1..MaxTasks, u \in Users :
        \/ \E sym \in Symbols, tfs \in TimeframeLists :
              \/ SubscribeUserToPair(i, u, sym, tfs)
              \/ UnsubscribeUserFromPair(i, u, sym, tfs)
        \/ \E names \in Orders(Streams(u, user_streams)) :
              UnsubscribeUserFromAll(i, u, names)

ConsumerStep ==
    \E i \in 1..MaxTasks :
        \/ \E ok \in BOOLEAN : SubscribeSent(i, ok)
        \/ UnsubscribeSent(i)

Lifecycle ==
    \/ StartCall
    \/ StartConnected
    \/ \E ok \in BOOLEAN : StartResubscribed(ok)
    \/ StartFailed
    \/ \E from \in {"idle", "stop_manager_tasks", "stop_client_tasks",
                    "stop_closing"} : Stop(from)

Client ==
    \/ \E kind \in {"end", "closed", "ws_exception", "exception"} : ListenEnds(kind)
    \/ \E t \in Tasks :
          \/ ReconnectWake(t)
          \/ ReconnectConnected(t)
          \/ ReconnectFailed(t)
          \/ \E ok \in BOOLEAN : Resubscribed(t, ok)
    \/ Ping
    \/ PingEnds
    \/ \E h \in HealthIds : HealthTimeout(h) \/ HealthEnds(h)

Environment == \E w \in 1..MaxConnects : ServerClose(w)

Inbound == \E message \in Frames : FrameArrives(message)

NotStartedCall ==
    \E i \in 1..MaxTasks, u \in Users :
        NotStarted(i, "subscribe", u) \/ NotStarted(i, "unsubscribe", u)

Heartbeat ==
    \/ Tick \/ PingAt \/ Pong
    \/ \E h \in HealthIds : HealthCheckAt(h)

Statistics ==
    \/ \E u \in Users : GetUserSubscriptions(u)
    \/ GetManagerStats
    \/ GetConnectionStats

Next ==
    \/ ConsumerCall \/ ConsumerStep \/ Lifecycle \/ Client \/ Environment
    \/ Inbound \/ Statistics \/ NotStartedCall \/ Heartbeat
    \/ \E stream_name \in StreamNames \cup {TickerStream} : ServerSends(stream_name)
    \/ \E stream_name \in StreamNames : ServerThrottles(stream_name)
    \/ ListenReads \/ ListenHandled

Spec == Init /\ [][Next]_vars

\* the registry under concurrent consumer calls, start(), stop() and
\* transports that the server closes
NextRegistry == ConsumerCall \/ ConsumerStep \/ Lifecycle \/ Environment
SpecRegistry == Init /\ [][NextRegistry]_vars

\* consumer calls on a connected client whose transport stays up
ConnectedCall == is_connected /\ ConsumerCall
NextConcurrent == StartCall \/ StartConnected \/ ConnectedCall \/ ConsumerStep
SpecConcurrent == Init /\ [][NextConcurrent]_vars

\* the same with calls that do not overlap, and the counters kept
SequentialCall == InFlight = {} /\ ConnectedCall
InitCounting ==
    /\ Constructed
    /\ obs = [InitObs EXCEPT !.counting = TRUE]
NextSequential == StartCall \/ StartConnected \/ SequentialCall \/ ConsumerStep
SpecSequential == InitCounting /\ [][NextSequential]_vars

\* consumer calls before start(), after a failed start(), and on a client
\* that is connected, disconnected, reconnecting or closed by exhaustion
NextFacing ==
    \/ StartCall \/ StartConnected \/ StartFailed
    \/ ConsumerCall \/ ConsumerStep \/ NotStartedCall
    \/ \E kind \in {"end", "closed", "ws_exception", "exception"} : ListenEnds(kind)
    \/ ReconnectWake(0) \/ ReconnectFailed(0)
    \/ Environment
SpecFacing == Init /\ [][NextFacing]_vars

\* the heartbeat of a started client in time, with a server that answers
\* the pings or does not, and the reconnection the health check starts
NextHeartbeat ==
    \/ StartCall \/ StartConnected
    \/ Heartbeat
    \/ PingEnds
    \/ \E h \in HealthIds : ReconnectWake(h) \/ ReconnectConnected(h)
SpecHeartbeat == Init /\ [][NextHeartbeat]_vars

\* concurrent calls on a connected client and the statistics calls
NextStats ==
    \/ StartCall \/ StartConnected
    \/ ConnectedCall \/ ConsumerStep
    \/ Statistics
SpecStats == Init /\ [][NextStats]_vars

\* sequential calls, among them subscribes whose list repeats a timeframe
RepeatedCall ==
    /\ InFlight = {}
    /\ is_connected
    /\ \E i \in 1..MaxTasks, u \in Users :
          SubscribeUserToPair(i, u, "BTCUSDT", <<"1m", "1m">>)
NextBatch ==
    \/ StartCall \/ StartConnected
    \/ SequentialCall \/ RepeatedCall
    \/ ConsumerStep
SpecBatch == InitCounting /\ [][NextBatch]_vars

\* calls on a connected client that also subscribe to timeframes written
\* in upper case, which validate_timeframe accepts
UpperCaseLists == {<<"1M">>, <<"1H">>, <<"1m", "1M">>}
UpperCaseCall ==
    /\ is_connected
    /\ \E i \in 1..MaxTasks, u \in Users, tfs \in UpperCaseLists :
          SubscribeUserToPair(i, u, "BTCUSDT", tfs)
NextCase ==
    \/ StartCall \/ StartConnected
    \/ ConnectedCall \/ UpperCaseCall
    \/ ConsumerStep
SpecCase == Init /\ [][NextCase]_vars

\* frames the server sends to a connected client while the users subscribe
\* to a stream and unsubscribe from it
InboundStreams == {get_kline_stream_name("BTCUSDT", "1m"), TickerStream}
InboundCall ==
    /\ is_connected
    /\ \E i \in 1..MaxTasks, u \in Users, tfs \in {<<"1m">>, <<"1m", "5m">>} :
          \/ SubscribeUserToPair(i, u, "BTCUSDT", tfs)
          \/ UnsubscribeUserFromPair(i, u, "BTCUSDT", tfs)
NextInbound ==
    \/ StartCall \/ StartConnected
    \/ InboundCall \/ ConsumerStep
    \/ \E stream_name \in InboundStreams : ServerSends(stream_name)
    \/ ListenReads \/ ListenHandled
SpecInbound == Init /\ [][NextInbound]_vars

\* the server throttles SUBSCRIBE commands of a connected client; every
\* task of the program that can take a step eventually takes one
NextThrottle ==
    \/ StartCall \/ StartConnected
    \/ InboundCall \/ ConsumerStep
    \/ \E stream_name \in StreamNames : ServerThrottles(stream_name)
    \/ ListenReads
SpecThrottle == Init /\ [][NextThrottle]_vars /\ WF_vars(NextThrottle)

\* calls of one user that do not overlap, with the counters kept, on a
\* client whose transport the server closes and whose listen loop ends
AnyStateCall ==
    /\ InFlight = {}
    /\ \E i \in 1..MaxTasks, tfs \in TimeframeLists :
          \/ SubscribeUserToPair(i, 1, "BTCUSDT", tfs)
          \/ UnsubscribeUserFromPair(i, 1, "BTCUSDT", tfs)
NextSend ==
    \/ StartCall \/ StartConnected
    \/ AnyStateCall \/ ConsumerStep
    \/ \E kind \in {"end", "closed", "ws_exception", "exception"} : ListenEnds(kind)
    \/ Environment
SpecSend == InitCounting /\ [][NextSend]_vars

\* consumer calls on a client whose transport the server closes and whose
\* listener reconnects at the first attempt
NextReplay ==
    \/ StartCall \/ StartConnected
    \/ ConsumerCall \/ ConsumerStep
    \/ \E kind \in {"end", "closed", "ws_exception", "exception"} : ListenEnds(kind)
    \/ ReconnectWake(0) \/ ReconnectConnected(0)
    \/ \E ok \in BOOLEAN : Resubscribed(0, ok)
    \/ Environment
SpecReplay == Init /\ [][NextReplay]_vars

\* consumer calls on a client whose reconnect attempts all fail
NextDegraded ==
    \/ StartCall \/ StartConnected
    \/ ConsumerCall \/ ConsumerStep
    \/ \E kind \in {"end", "closed", "ws_exception", "exception"} : ListenEnds(kind)
    \/ ReconnectWake(0) \/ ReconnectFailed(0)
    \/ Environment
SpecDegraded == Init /\ [][NextDegraded]_vars

\* one frame, any of Frames, that the server sends (any number of times)
\* on a connected client while users subscribe to 1m
InitFrames ==
    /\ Constructed
    /\ \E message \in Frames :
         obs = [InitObs EXCEPT !.frame.stream = message.stream,
                               !.frame.k = message.k]
ServerFrame == [stream |-> obs.frame.stream, k |-> obs.frame.k]
NextFrames ==
    \/ StartCall \/ StartConnected
    \/ \E i \in 1..MaxTasks, u \in Users :
          SubscribeUserToPair(i, u, "BTCUSDT", <<"1m">>)
    \/ \E i \in 1..MaxTasks, ok \in BOOLEAN : SubscribeSent(i, ok)
    \/ FrameArrives(ServerFrame)
SpecFrames == InitFrames /\ [][NextFrames]_vars

\* the client without consumers: connect, listen, heartbeat, reconnect, stop
\* (no stream is ever subscribed, so nothing is replayed after a connect)
NextClient ==
    \/ StartCall \/ StartConnected \/ StartFailed
    \/ \E from \in {"idle", "stop_manager_tasks", "stop_client_tasks",
                    "stop_closing"} : Stop(from)
    \/ \E kind \in {"end", "closed", "ws_exception", "exception"} : ListenEnds(kind)
    \/ \E t \in Tasks :
          ReconnectWake(t) \/ ReconnectConnected(t) \/ ReconnectFailed(t)
    \/ Ping \/ PingEnds
    \/ \E h \in HealthIds : HealthTimeout(h) \/ HealthEnds(h)
    \/ Environment
SpecClient == Init /\ [][NextClient]_vars

\* ---------------------------------------------------------------------
\* Properties

\* the streams of the registry that have at least one user
Registered == Live(subscriptions)

\* C1: in every state, a user is among the subscribers of a stream in
\* subscriptions exactly when the stream is in user_streams of that user,
\* whatever calls ran and whether or not their sends failed
C1_RegistryAgreement ==
    \A u \in Users, s \in StreamNames :
        (s \in DOMAIN subscriptions /\ u \in subscriptions[s])
            <=> s \in Streams(u, user_streams)

\* a subscribe whose send failed has returned and left its user in the
\* stream it created, which the other user is not in
C1_Witness ==
    /\ returned.op = "subscribe" /\ returned.send_failed
    /\ \E s \in returned.created :
          /\ s \in DOMAIN subscriptions
          /\ returned.user \in subscriptions[s]
          /\ \E u \in Users : u \notin subscriptions[s]

\* C2: with calls that do not overlap on a connected client, once no call
\* is running the SUBSCRIBE frames written for a stream number the times
\* its subscription was created, and the UNSUBSCRIBE frames the times it
\* was destroyed
C2_FramesMatchEdges ==
    InFlight = {} =>
        \A s \in StreamNames :
            /\ obs.sub_frames[s] = obs.up[s]
            /\ obs.unsub_frames[s] = obs.down[s]

\* two users share a stream for which one SUBSCRIBE frame was written
C2_Witness ==
    /\ InFlight = {}
    /\ \E s \in Registered :
          /\ Cardinality(subscriptions[s]) = 2
          /\ obs.sub_frames[s] = 1
    /\ \E s \in StreamNames : obs.unsub_frames[s] = 1

\* C3: with overlapping calls on a connected client whose sends all
\* succeed, once no call is running the streams subscribed upstream are
\* the streams of the registry
C3_NoRace ==
    (InFlight = {} /\ is_connected /\ websocket \in DOMAIN upstream) =>
        /\ subscribed_streams = Registered
        /\ upstream[websocket] = Registered

\* C10: when subscribe_user_to_pair returns after its upstream send
\* failed, the registry holds none of the streams the call created for
\* the user and the result of each such timeframe is False
C10_Rollback ==
    [][(/\ returned'.n # returned.n
        /\ returned'.op = "subscribe"
        /\ returned'.send_failed)
       => \A s \in returned'.created :
            /\ s \notin Streams(returned'.user, user_streams')
            /\ ~(s \in DOMAIN subscriptions'
                 /\ returned'.user \in subscriptions'[s])
            /\ s[2] \in DOMAIN returned'.results
            /\ ~returned'.results[s[2]]]_vars

\* C4: the SUBSCRIBE replayed by the reconnect that follows an unexpected
\* disconnect names exactly the streams that had a user in the registry
\* when the transport went down, no consumer call having run in between
C4_ReplayIsSnapshot ==
    (obs.replay.done /\ obs.replay.quiet) =>
        obs.replay.sent = obs.replay.snap

\* C5: once the server has closed the transport of a connected client that
\* nobody asked to disconnect, the client is connected, closed, or has a
\* task in _handle_reconnection
C5_NoSilentHang ==
    (/\ obs.snap.taken
     /\ ~obs.explicit
     /\ lifecycle = "idle"
     /\ state \notin {"connected", "closed"})
        => \E t \in Tasks : Reconnecting(t)

\* C6: reconnect_attempts never exceeds max_reconnect_attempts, at most
\* max_reconnect_attempts connect attempts are made since the last
\* successful connect, and the error handler has received at most one
\* WebSocketReconnectError since then
C6_AttemptCeiling ==
    /\ reconnect_attempts <= max_reconnect_attempts
    /\ obs.run_connects <= max_reconnect_attempts
    /\ obs.reconnect_errors <= 1

\* C7: a task that goes to sleep in _handle_reconnection has counted one
\* more attempt, the k-th of 1..5, and sleeps the k-th of 5, 10, 20, 40, 80
C7_BackoffSchedule ==
    [][\A t \in Tasks :
         (TaskPc(t) # "sleep" /\ TaskPc(t)' = "sleep") =>
            /\ reconnect_attempts' = reconnect_attempts + 1
            /\ reconnect_attempts' \in 1..max_reconnect_attempts
            /\ TaskDelay(t)' = <<5, 10, 20, 40, 80>>[reconnect_attempts']]_vars

\* the fifth attempt of a run sleeps 80 seconds
C7_Witness ==
    \E t \in Tasks : TaskPc(t) = "sleep" /\ TaskDelay(t) = 80
                     /\ reconnect_attempts = 5 /\ obs.run_connects = 4

\* C8: a connected client has reconnect_attempts = 0
C8_CounterReset == state = "connected" => reconnect_attempts = 0

\* connected after three failed reconnect attempts
C8_Witness ==
    /\ obs.prev_run = 3
    /\ state = "connected"
    /\ reconnect_attempts = 0

\* C9: after disconnect() no transport is opened and the state is CLOSED
C9_ExplicitDisconnect ==
    [][(obs.explicit /\ obs'.explicit) =>
          (nconn' = nconn /\ state' = "closed")]_vars

\* C11: a subscribe_user_to_pair that starts while the client is CLOSED
\* after its reconnect attempts were exhausted returns in the same step,
\* with False for every requested timeframe
C11_FailFast ==
    [][\A i \in 1..MaxTasks, u \in Users, sym \in Symbols,
          tfs \in TimeframeLists :
         (/\ SubscribeUserToPair(i, u, sym, tfs)
          /\ state = "closed"
          /\ obs.reconnect_errors > 0)
           => /\ calls'[i].op = "idle"
              /\ DOMAIN returned'.results = SeqToSet(tfs)
              /\ \A tf \in SeqToSet(tfs) : ~returned'.results[tf]]_vars

C13_AddIdempotent ==
    [][\A i \in 1..MaxTasks, u \in Users, tfs \in TimeframeLists :
         (/\ SubscribeUserToPair(i, u, "BTCUSDT", tfs)
          /\ \A tf \in SeqToSet(tfs) \cap BINANCE_TIMEFRAMES :
                LET name == get_kline_stream_name("BTCUSDT", tf)
                IN  name \in DOMAIN subscriptions /\ u \in subscriptions[name])
           => /\ UNCHANGED <<subscriptions, user_streams>>
              /\ UNCHANGED <<upstream, subscribed_streams, pending_subscriptions>>
              /\ calls'[i].op = "idle"
              /\ returned'.created = {}]_vars

\* two calls have run and returned; the second one, a subscribe to 1m by
\* the only user of the 1m stream, created nothing
C13_Witness ==
    /\ ncalls = 2 /\ InFlight = {}
    /\ returned.op = "subscribe" /\ returned.created = {}
    /\ DOMAIN returned.results = {"1m"} /\ returned.results["1m"]
    /\ DOMAIN subscriptions = {<<"btcusdt", "1m">>}
    /\ subscriptions[<<"btcusdt", "1m">>] = {returned.user}

\* C14: an unsubscribe_user_from_pair for streams the user is not in (or
\* that do not exist) leaves subscriptions and the other users' user_streams
\* as they were, leaves the user without an empty entry in user_streams and
\* with the streams it had, returns without a send, and writes no frame
C14_RemoveNonMember ==
    [][\A i \in 1..MaxTasks, u \in Users, sym \in Symbols,
          tfs \in TimeframeLists :
         (/\ UnsubscribeUserFromPair(i, u, sym, tfs)
          /\ \A tf \in SeqToSet(tfs) :
                LET name == get_kline_stream_name(sym, tf)
                IN  ~(name \in DOMAIN subscriptions /\ u \in subscriptions[name]))
           => /\ UNCHANGED subscriptions
              /\ \A v \in Users \ {u} :
                    /\ v \in DOMAIN user_streams' <=> v \in DOMAIN user_streams
                    /\ Streams(v, user_streams') = Streams(v, user_streams)
              /\ Streams(u, user_streams') = Streams(u, user_streams)
              /\ u \in DOMAIN user_streams' => user_streams'[u] # {}
              /\ UNCHANGED <<upstream, subscribed_streams, pending_subscriptions>>
              /\ calls'[i].op = "idle"]_vars

\* two calls have run and returned: user 2 holds the 1m stream alone and
\* the unsubscribe of user 1, who has no entry, returned last
C14_Witness ==
    /\ ncalls = 2 /\ InFlight = {}
    /\ returned.op = "unsubscribe" /\ returned.user = 1
    /\ DOMAIN returned.results = {"1m"}
    /\ DOMAIN subscriptions = {<<"btcusdt", "1m">>}
    /\ subscriptions[<<"btcusdt", "1m">>] = {2}
    /\ DOMAIN user_streams = {2}

\* a kline that fails one of the checks named for validation
Malformed(k) ==
    \/ k.missing
    \/ k.t >= k.T
    \/ k.h < Max(k.o, k.c)
    \/ k.l > Min(k.o, k.c)
    \/ k.v < 0

\* C15: the step that handles a malformed kline frame calls neither the
\* message handler nor the closed-candle pipeline, raises nothing out of
\* _handle_message, and leaves the connection state, the transport and
\* the listen task as they were
C15_MalformedDropped ==
    [][(FrameArrives(ServerFrame) /\ Malformed(ServerFrame.k))
         => /\ obs'.frame.handler = 0
            /\ obs'.frame.pipeline = 0
            /\ ~obs'.frame.raised
            /\ UNCHANGED <<state, websocket, open, listener>>]_vars

\* a frame with high below the close, for a stream that has a user, has
\* been handled
C15_Witness ==
    /\ obs.frame.seen
    /\ ~obs.frame.k.missing
    /\ obs.frame.k.h < obs.frame.k.c
    /\ obs.frame.stream \in Live(subscriptions)
    /\ state = "connected"

\* C16: the step that handles a well-formed kline frame of a stream with a
\* user calls the message handler, and runs the closed-candle pipeline
\* once if the frame has is_closed = true and not at all otherwise
C16_ClosedCandleOnce ==
    [][(/\ FrameArrives(ServerFrame)
        /\ ~Malformed(ServerFrame.k)
        /\ ServerFrame.stream \in Live(subscriptions))
         => /\ obs'.frame.handler = 1
            /\ obs'.frame.pipeline = IF ServerFrame.k.x THEN 1 ELSE 0]_vars

\* C17: the step in which unsubscribe_user_from_all(u) runs takes u out of
\* every subscription and out of user_streams, deletes exactly the
\* streams whose only user was u, keeps every other stream with its other
\* users and every other user's entry as it was, and unsubscribes (now or
\* in the rest of the call) exactly the deleted streams the client holds,
\* touching no other stream upstream
C17_UnsubscribeAllEffect ==
    [][\A i \in 1..MaxTasks, u \in Users :
         \A names \in Orders(Streams(u, user_streams)) :
           UnsubscribeUserFromAll(i, u, names) =>
             LET only == {s \in DOMAIN subscriptions : subscriptions[s] = {u}}
                 rest == IF calls'[i].op = "unsubscribe_all"
                         THEN SeqToSet(calls'[i].todo) ELSE {}
                 handled == (subscribed_streams \ subscribed_streams') \cup rest
             IN  /\ u \notin DOMAIN user_streams'
                 /\ DOMAIN subscriptions' = DOMAIN subscriptions \ only
                 /\ \A s \in DOMAIN subscriptions' :
                        subscriptions'[s] = subscriptions[s] \ {u}
                 /\ \A v \in Users \ {u} :
                        Streams(v, user_streams') = Streams(v, user_streams)
                 /\ DOMAIN user_streams' = DOMAIN user_streams \ {u}
                 /\ handled = only \cap subscribed_streams
                 /\ \A w \in DOMAIN upstream :
                        upstream[w] \ upstream'[w] \subseteq only]_vars

\* unsubscribe_user_from_all has written the UNSUBSCRIBE frame of a stream
\* it emptied while a stream the user shared is still in the registry
C17_Witness ==
    \E i \in 1..MaxTasks :
        /\ calls[i].op = "unsubscribe_all"
        /\ calls[i].user \notin DOMAIN user_streams
        /\ Live(subscriptions) # {}
        /\ \E s \in StreamNames :
              /\ s \notin DOMAIN subscriptions
              /\ obs.down[s] > 0
              /\ obs.unsub_frames[s] > 0

\* the streams for which a step writes an UNSUBSCRIBE frame
UnsubscribeWritten == {s \in StreamNames : obs'.unsub_frames[s] > obs.unsub_frames[s]}

\* C18: a call of unsubscribe_user_from_pair or unsubscribe_user_from_all
\* writes its UNSUBSCRIBE frame in the step that empties the streams, for
\* exactly the emptied streams the client holds, and writes no further
\* frame when that send has completed
C18_BatchedUnsubscribe ==
    [][/\ \A i \in 1..MaxTasks :
            (calls[i].op = "idle" /\ calls'[i].op \in {"unsubscribe", "unsubscribe_all"})
              => UnsubscribeWritten =
                   (Live(subscriptions) \ Live(subscriptions')) \cap subscribed_streams
       /\ \A i \in 1..MaxTasks :
            (calls[i].op \in {"unsubscribe", "unsubscribe_all"} /\ UnsubscribeSent(i))
              => UnsubscribeWritten = {}]_vars

\* C19: a subscribe_user_to_pair call on a connected client writes no
\* SUBSCRIBE frame when it creates no stream, and otherwise at most one,
\* whose params list each stream the call created exactly once; nothing
\* more is written when the send has completed
C19_BatchedSubscribe ==
    [][/\ \A i \in 1..MaxTasks, u \in Users, sym \in Symbols,
            tfs \in TimeframeLists \cup {<<"1m", "1m">>} :
            (SubscribeUserToPair(i, u, sym, tfs) /\ state = "connected") =>
              LET new == DOMAIN subscriptions' \ DOMAIN subscriptions
                  params == calls'[i].todo
              IN  IF calls'[i].op = "subscribe"
                  THEN /\ SeqToSet(params) = new
                       /\ Len(params) = Cardinality(new)
                       /\ \A s \in StreamNames :
                            obs'.sub_frames[s] =
                              obs.sub_frames[s] + (IF s \in new THEN 1 ELSE 0)
                       /\ upstream'[websocket] = upstream[websocket] \cup new
                  ELSE /\ obs'.sub_frames = obs.sub_frames
                       /\ upstream' = upstream
                       /\ new # {} => ~TransportOpen
       /\ \A i \in 1..MaxTasks, ok \in BOOLEAN :
            SubscribeSent(i, ok) =>
              /\ obs'.sub_frames = obs.sub_frames
              /\ upstream' = upstream]_vars

\* a subscribe whose list names 1m twice has written one frame with the
\* one stream it created
C19_Witness ==
    \E i \in 1..MaxTasks :
        /\ calls[i].op = "subscribe"
        /\ calls[i].timeframes = <<"1m", "1m">>
        /\ calls[i].todo = <<get_kline_stream_name("BTCUSDT", "1m")>>
        /\ obs.sub_frames[get_kline_stream_name("BTCUSDT", "1m")] = 1

\* C20: once stop() has returned after disconnecting a client, and until
\* the next start(), the registry is empty, websocket_client is None, the
\* janitor and heartbeat tasks are gone, and nothing changes the old
\* client's state, transport, attempt counter or number of connections
C20_StopIsFinal ==
    /\ []((lifecycle = "idle" /\ ~websocket_client /\ obs.explicit)
            => /\ subscriptions = EmptyDict
               /\ user_streams = EmptyDict
               /\ ~manager_tasks
               /\ ~ping_task)
    /\ [][(/\ lifecycle = "idle" /\ ~websocket_client /\ obs.explicit
           /\ lifecycle' = "idle" /\ ~websocket_client' /\ obs'.explicit)
            => UNCHANGED <<state, websocket, open, nconn,
                           reconnect_attempts>>]_vars

\* C21: when stop() has awaited disconnect() on its client and returns, the
\* client's state is CLOSED, its ping and health check tasks have ended,
\* its transport is not open, and subscribed_streams and
\* pending_subscriptions are empty
C21_DisconnectIdempotent ==
    [][((\E from \in {"idle", "stop_manager_tasks", "stop_client_tasks",
                      "stop_closing"} : Stop(from))
        /\ websocket_client /\ ~websocket_client')
         => /\ state' = "closed"
            /\ ~ping_task'
            /\ \A h \in HealthIds : health'[h].pc \in {"none", "done"}
            /\ websocket' \notin open'
            /\ subscribed_streams' = {}
            /\ pending_subscriptions' = {}]_vars

\* C22: a connect() that opens its transport leaves the state CONNECTED,
\* the ping and health check tasks started and is_connected() true; one
\* whose handshake fails opens nothing, tries once, notifies the error
\* handler and raises, and start() sees the state DISCONNECTED; one called
\* while CONNECTED or CONNECTING opens no transport and returns True
C22_ConnectContract ==
    [][/\ (StartConnected \/ \E t \in Tasks : ReconnectConnected(t))
            => /\ obs'.connect = "true"
               /\ state' = "connected"
               /\ nconn' = nconn + 1
               /\ websocket' \in open' /\ websocket' \notin open
               /\ ping_task'
               /\ health_check_task' = websocket'
               /\ health'[health_check_task'].pc = "idle"
       /\ StartFailed
            => /\ obs'.connect = "raised"
               /\ state' = "disconnected"
               /\ UNCHANGED <<nconn, open, websocket>>
       /\ (\E t \in Tasks : ReconnectFailed(t))
            => /\ obs'.connect = "raised"
               /\ obs'.run_connects = obs.run_connects
               /\ UNCHANGED <<nconn, open, websocket>>
       /\ (\E t \in Tasks : ReconnectWake(t) /\ state \in {"connected", "connecting"})
            => /\ obs'.connect = "early"
               /\ UNCHANGED <<state, nconn, open, websocket>>]_vars

\* a connect() has returned True without opening a transport, a transport
\* opened by another connect() being in use
C22_Witness ==
    /\ obs.connect = "early"
    /\ state = "connected"
    /\ websocket \in open
    /\ nconn > 1

\* C23: a start() whose first connect() fails raises to its caller, and it
\* starts no janitor task, no listen task and no reconnection; until the
\* next start() or stop() the client stays DISCONNECTED and opens no
\* transport
C23_StartFailsFatally ==
    [][/\ StartFailed
            => /\ obs'.start = "raised"
               /\ lifecycle' = "idle"
               /\ manager_tasks' = manager_tasks
               /\ listener'.pc = "none"
               /\ ~ping_task'
               /\ \A t \in Tasks : TaskPc(t)' = "none"
               /\ UNCHANGED <<nconn, open>>
       /\ (obs.start = "raised" /\ obs'.start = "raised" /\ ~obs'.explicit)
            => UNCHANGED <<state, nconn, open, listener, health, ping_task,
                           reconnect_attempts>>]_vars

\* a start() has failed on a manager that is not running
C23_Witness ==
    /\ obs.start = "raised"
    /\ lifecycle = "idle"
    /\ state = "disconnected"
    /\ ~manager_tasks
    /\ websocket_client

\* C24: a step of get_user_subscriptions, get_manager_stats or
\* get_connection_stats changes nothing but the value it returns: the
\* registry (with no entry for a user who has none), the calls in flight,
\* the counters and the whole client are as before
C24_StatsReadOnly ==
    [][((\E u \in Users : GetUserSubscriptions(u))
          \/ GetManagerStats \/ GetConnectionStats)
         => /\ UNCHANGED <<mgrVars, connVars, upstream, streamVars, pinged, clock,
                           taskVars>>
            /\ DOMAIN user_streams' = DOMAIN user_streams
            /\ obs' = [obs EXCEPT !.stats = obs'.stats]]_vars

\* get_user_subscriptions has returned the empty list for a user without
\* an entry while another user has subscriptions
C24_Witness ==
    /\ obs.stats.op = "get_user_subscriptions"
    /\ obs.stats.value = {}
    /\ obs.stats.user \notin DOMAIN user_streams
    /\ DOMAIN user_streams # {}

\* C25: a consumer call on a manager whose start() has been called does
\* not end with an exception, whatever the state of the client and whether
\* or not its send fails: subscribe_user_to_pair and
\* unsubscribe_user_from_pair return a boolean for each timeframe of a
\* list, unsubscribe_user_from_all returns a boolean
C25_NoRaise ==
    [][returned'.n # returned.n =>
         /\ returned'.raised => ~websocket_client
         /\ ~returned'.raised =>
              /\ returned'.op \in {"subscribe", "unsubscribe"} =>
                   DOMAIN returned'.results \in
                       {SeqToSet(tfs) : tfs \in TimeframeLists}
              /\ returned'.op = "unsubscribe_all" =>
                   DOMAIN returned'.results = {"all"}
              /\ \A k \in DOMAIN returned'.results :
                     returned'.results[k] \in BOOLEAN]_vars

\* a subscribe whose send failed on a closed transport has returned its
\* map while the client is CLOSED after its last reconnect attempt
C25_Witness ==
    /\ returned.op = "subscribe"
    /\ returned.send_failed
    /\ ~returned.raised
    /\ DOMAIN returned.results # {}
    /\ state = "closed"
    /\ obs.reconnect_errors > 0
    /\ websocket_client

\* C26: when the health check finds the last ping unanswered for more than
\* ping_timeout, the step in which it declares the timeout closes the
\* current transport and leaves the client on the reconnect path
C26_DeadConnection ==
    [][\A h \in HealthIds :
         (/\ HealthCheckAt(h)
          /\ ~Answered
          /\ ping_timeout_detected(clock.last_ping_time,
                                   clock.last_pong_time, clock.now))
           => /\ websocket \notin open'
              /\ state' \in {"reconnecting", "closed"}]_vars

\* C29: while the server has answered every ping within ping_timeout, an
\* iteration of the health check leaves the client CONNECTED and starts no
\* reconnection
C29_NoFalseTimeout ==
    [][\A h \in HealthIds :
         (HealthCheckAt(h) /\ Answered /\ ~clock.late)
           => /\ state' = "connected"
              /\ reconnect_attempts' = reconnect_attempts
              /\ ~Reconnecting(h)']_vars

\* C27: in every state every subscription of the registry has at least
\* one user: it is created holding its first user, and the step that takes
\* its last user away (unsubscribe_user_from_pair, unsubscribe_user_from_all
\* or the rollback of a failed subscribe) deletes it
C27_NoEmptySubscription ==
    \A s \in DOMAIN subscriptions : subscriptions[s] # {}

\* unsubscribe_user_from_pair is between the UNSUBSCRIBE frames of the
\* streams it emptied: a stream of the call is gone from the registry
\* while another subscription remains
C27_Witness ==
    \E i \in 1..MaxTasks :
        /\ calls[i].op = "unsubscribe"
        /\ \E k \in 1..Len(calls[i].timeframes) :
              get_kline_stream_name(calls[i].symbol, calls[i].timeframes[k])
                  \notin DOMAIN subscriptions
        /\ DOMAIN subscriptions # {}

\* C28: the key of every subscription in the registry is the stream_name
\* its record carries, and the records of two different keys carry
\* different stream names and different (symbol, timeframe) pairs
C28_CanonicalKey ==
    \A s \in DOMAIN subscriptions :
        /\ record(s).stream_name = s
        /\ \A t \in DOMAIN subscriptions \ {s} :
              /\ record(s).stream_name # record(t).stream_name
              /\ <<record(s).symbol, record(s).timeframe>>
                    # <<record(t).symbol, record(t).timeframe>>

\* C30: whenever the client of a started manager is CONNECTED on an open
\* transport, after start() and after every automatic reconnect, a listen
\* loop is reading that transport, so a frame that arrives on it can be
\* handed to the message handler
C30_ListenLoopFollows ==
    (/\ websocket_client /\ lifecycle = "idle"
     /\ state = "connected" /\ TransportOpen)
        => /\ listener.pc = "listening"
           /\ listener.ws = websocket

\* C31: in every state at most one transport opened by the client is
\* still open: a reconnect started by the heartbeat has closed the old
\* transport by the time the new one is open
C31_OneLiveTransport == Cardinality(open) <= 1

\* C32: at most one reconnection procedure is in progress at a time: the
\* listen task and the health check tasks are never inside
\* _handle_reconnection together
C32_OneReconnection ==
    Cardinality({t \in Tasks : Reconnecting(t)}) <= 1

\* a step writes a control frame to a transport: the streams the server
\* holds for it change
FrameWritten ==
    \E w \in DOMAIN upstream' :
        IF w \in DOMAIN upstream THEN upstream'[w] # upstream[w]
        ELSE upstream'[w] # {}

\* C33: a SUBSCRIBE or UNSUBSCRIBE frame is written only while the state
\* is CONNECTED and the transport open, and a call whose send failed on a
\* missing or closed transport has written nothing and left messages_sent
\* as it was
C33_SendOnlyConnected ==
    [][/\ FrameWritten => (state' = "connected" /\ websocket' \in open')
       /\ (returned' # returned /\ returned'.send_failed)
             => /\ obs'.messages_sent = obs.messages_sent
                /\ upstream' = upstream]_vars

\* a subscribe has failed on a closed transport of a client that had sent
\* a frame before, and the stream it asked for is not upstream
C33_Witness ==
    /\ returned.op = "subscribe" /\ returned.send_failed
    /\ obs.messages_sent >= 1
    /\ state = "connected" /\ ~TransportOpen
    /\ returned.created # {}

\* C34: the listen loop begins the handling of a frame only when the
\* handling of the frame before it has ended, and the frame it begins is
\* the oldest that has arrived: it was sent after every frame handled
\* before it and before every frame still waiting
C34_ArrivalOrder ==
    [][(inbound'.last # inbound.last /\ inbound'.last # 0)
         => /\ inbound.handling = 0
            /\ inbound'.last > inbound.last
            /\ \A k \in 1..Len(inbound'.queue) :
                   inbound'.queue[k].n > inbound'.last]_vars

\* the manager is handling the second frame of the connection after it
\* has handled the first
C34_Witness ==
    /\ inbound.handling = 2
    /\ inbound.last = 2
    /\ message_stats.total_messages_processed = 2

\* C35: the step in which the listen loop takes a frame that names a
\* stream with no subscription creates no subscription, leaves the users,
\* message_count and last_data_time of every subscription and user_streams
\* as they were, and does not run the kline pipeline
C35_UnknownStreamNoOp ==
    [][(ListenReads /\ Head(inbound.queue).stream \notin DOMAIN subscriptions)
         => /\ subscriptions' = subscriptions
            /\ user_streams' = user_streams
            /\ message_stats'.message_count = message_stats.message_count
            /\ message_stats'.last_data_time = message_stats.last_data_time
            /\ inbound'.pipeline = 0]_vars

\* the manager is handling a frame of a stream nobody is subscribed to,
\* next to a subscription whose counters are untouched
C35_Witness ==
    /\ inbound.handling # 0
    /\ message_stats.total_messages_processed >= 1
    /\ DOMAIN subscriptions # {}
    /\ \A s \in DOMAIN subscriptions : message_stats.message_count[s] = 0
    /\ message_stats.last_data_time = {}

\* C36: the step in which the listen loop takes a frame that names the
\* stream of a live subscription adds exactly 1 to its message_count and
\* sets its last_data_time, and total_messages_processed grows with it
C36_CountsEveryFrame ==
    [][\A s \in DOMAIN subscriptions :
         (ListenReads /\ Head(inbound.queue).stream = s)
           => /\ s \in DOMAIN subscriptions'
              /\ message_stats'.message_count[s] = message_stats.message_count[s] + 1
              /\ s \in message_stats'.last_data_time
              /\ message_stats'.total_messages_processed
                    > message_stats.total_messages_processed]_vars

\* C37: a consumer call that runs while the client is not connected
\* returns at once without a frame: the streams it creates join
\* subscribed_streams and are reported as success, the streams it empties
\* leave subscribed_streams; and the SUBSCRIBE a successful reconnect sends
\* on the new transport names exactly subscribed_streams
C37_DeferredSubscription ==
    [][/\ (ncalls' # ncalls /\ websocket_client /\ state # "connected")
           => LET new == DOMAIN subscriptions' \ DOMAIN subscriptions
                  gone == DOMAIN subscriptions \ DOMAIN subscriptions'
              IN  /\ subscribed_streams' = (subscribed_streams \cup new) \ gone
                  /\ upstream' = upstream
                  /\ returned' # returned
                  /\ ~returned'.send_failed
                  /\ new # {} => \A tf \in DOMAIN returned'.results :
                         get_kline_stream_name("BTCUSDT", tf) \in new
                             => returned'.results[tf]
       /\ \A t \in Tasks :
              ReconnectConnected(t) => upstream'[websocket'] = subscribed_streams]_vars

\* a reconnect has replayed a stream that was not in the registry when the
\* server closed the connection: it was subscribed while disconnected
C37_Witness ==
    /\ obs.replay.done
    /\ obs.replay.sent \ obs.replay.snap # {}
    /\ state = "connected" /\ TransportOpen
    /\ obs.replay.sent \subseteq upstream[websocket]

\* C38: when start() replaces a client that exists, which it does without
\* stopping anything, that client has no open transport, no listen loop,
\* no heartbeat task and no reconnection left; and when start() creates
\* the cleanup and stats tasks none are running already
C38_SingleSession ==
    [][/\ (StartCall /\ websocket_client)
           => /\ open = {}
              /\ ~ping_task
              /\ \A h \in HealthIds : health[h].pc \in {"none", "done"}
              /\ listener.pc \in {"none", "done"}
       /\ (lifecycle \in {"start_connecting", "start_resub"}
              /\ lifecycle' = "idle" /\ manager_tasks')
           => ~manager_tasks]_vars

\* the client has handled the throttling error for the SUBSCRIBE of a
\* stream it still wants, and the server does not hold the stream
Throttled(s) ==
    /\ state = "connected" /\ TransportOpen
    /\ s \in subscribed_streams
    /\ s \notin upstream[websocket]
    /\ inbound.queue = <<>>

\* C39: after a throttling error for the SUBSCRIBE of a stream the client
\* sends that command again, so that the server comes to hold the stream
\* (unless the stream is unsubscribed first), and the error changes neither
\* the connection state nor the attempt counter
C39_RetryAfterThrottle ==
    /\ \A s \in StreamNames :
          Throttled(s) ~> (s \notin subscribed_streams
                            \/ (TransportOpen /\ s \in upstream[websocket]))
    /\ [][(ListenReads /\ Head(inbound.queue).error)
             => UNCHANGED <<state, reconnect_attempts, listener, health>>]_vars

====
